---------------------------- MODULE Spec2Model ----------------------------
(***************************************************************************)
(* Compression & retrieval scoring engine of the memory system.            *)
(*                                                                         *)
(* CompressionEngine (src/src/compression-engine.js) and RetrievalService  *)
(* (src/src/retrieval-service.js) are function libraries: an orchestrator  *)
(* constructs them with a configuration and calls their operations.  The   *)
(* state of the model is the constructed objects, the operation in         *)
(* progress with its arguments, and what the operation gave back to its    *)
(* caller (a value, or an exception that escaped).                         *)
(*                                                                         *)
(* Text is a sequence of one-character strings, so that lower-casing,      *)
(* tokenising and substring search are computed and not assumed.  Numbers  *)
(* that JavaScript computes by division are exact fractions [num, den];    *)
(* den = 0 is NaN (0/0).  Time is counted in whole days.                   *)
(***************************************************************************)
EXTENDS Integers, Sequences, FiniteSets, TLC

VARIABLES
    engine,     \* the CompressionEngine object (compressionThreshold, options)
    service,    \* the RetrievalService object (options)
    manager,    \* the MemoryManager object with its collaborators' state
    op,         \* the operation called last ("none" while idle)
    args,       \* its arguments
    outcome,    \* "idle" | "returned" | "threw": how the call came back
    result,     \* the value it returned
    layer,      \* the PersistenceLayer object and the files it works on
    calls,      \* the calls in flight that overlap, each with its position
    history,    \* what the calls made so far did (a record kept for the
                \* properties; the program does not read it)
    handlers    \* the KnowledgeGraphHandler objects of the sessions that run
                \* side by side, their caches and the server they share

vars == <<engine, service, manager, op, args, outcome, result, layer, calls,
          history, handlers>>

-----------------------------------------------------------------------------
(* Bounds of the model *)

\* longest text (in characters) handed to _calculateSimilarity on its own
MaxLen == 3
\* longest list of pending observations handed to compression
MaxPending == 3

-----------------------------------------------------------------------------
(* Characters and text *)

UpperSeq == <<"A","B","C","D","E","F","G","H","I","J","K","L","M",
              "N","O","P","Q","R","S","T","U","V","W","X","Y","Z">>
LowerSeq == <<"a","b","c","d","e","f","g","h","i","j","k","l","m",
              "n","o","p","q","r","s","t","u","v","w","x","y","z">>
DigitSeq == <<"0","1","2","3","4","5","6","7","8","9">>

Range(s) == {s[i] : i \in DOMAIN s}

Upper  == Range(UpperSeq)
Lower  == Range(LowerSeq)
Digits == Range(DigitSeq)

\* \w of a JavaScript regular expression: [A-Za-z0-9_]
WordChars == Upper \cup Lower \cup Digits \cup {"_"}

IsWordChar(c) == c \in WordChars

LowerOf ==
    [c \in Upper |-> LowerSeq[CHOOSE i \in DOMAIN UpperSeq : UpperSeq[i] = c]]

\* String.prototype.toLowerCase on one character
LowerChar(c) == IF c \in Upper THEN LowerOf[c] ELSE c

\* String.prototype.toLowerCase
toLowerCase(s) == [i \in DOMAIN s |-> LowerChar(s[i])]

\* a value that is not a string (undefined): reading .toLowerCase or .split
\* of it throws a TypeError
undefinedStr == <<"undefined">>

\* s.split(/\W+/).filter(t => t.length > 0): the maximal runs of word
\* characters of s, in order
RECURSIVE SplitFrom(_, _, _)
SplitFrom(s, i, cur) ==
    IF i > Len(s)
    THEN IF cur = <<>> THEN <<>> ELSE <<cur>>
    ELSE IF IsWordChar(s[i])
         THEN SplitFrom(s, i + 1, Append(cur, s[i]))
         ELSE IF cur = <<>>
              THEN SplitFrom(s, i + 1, <<>>)
              ELSE <<cur>> \o SplitFrom(s, i + 1, <<>>)

SplitWords(s) == SplitFrom(s, 1, <<>>)

-----------------------------------------------------------------------------
(* Numbers *)

\* a JavaScript number obtained by a division: num/den, NaN when den = 0
Frac(n, d) == [num |-> n, den |-> d]
IsNaN(x) == x.den = 0
\* x >= y, x = y and x <= y of JavaScript numbers (false when either is NaN)
FracGeq(x, y) == ~IsNaN(x) /\ ~IsNaN(y) /\ x.num * y.den >= y.num * x.den
FracEq(x, y)  == ~IsNaN(x) /\ ~IsNaN(y) /\ x.num * y.den = y.num * x.den
FracLeq(x, y) == FracGeq(y, x)

-----------------------------------------------------------------------------
(* CompressionEngine._calculateSimilarity *)

\* intersection.size / union.size of the two token sets; 0/0 is NaN
_calculateSimilarity(contentA, contentB) ==
    LET tokensA == SplitWords(toLowerCase(contentA))
        tokensB == SplitWords(toLowerCase(contentB))
        setA == Range(tokensA)
        setB == Range(tokensB)
        intersection == {x \in setA : x \in setB}
        union == setA \cup setB
    IN  Frac(Cardinality(intersection), Cardinality(union))

\* contentA.toLowerCase() / contentB.toLowerCase() throws on a non-string
SimilarityThrows(contentA, contentB) ==
    contentA = undefinedStr \/ contentB = undefinedStr

-----------------------------------------------------------------------------
(* Observations *)

\* the clock (new Date()), in days
Now == 100
\* observation.timestamp that is absent: new Date(undefined) is an invalid
\* date, its arithmetic gives NaN
NoTimestamp == -1
\* observation.confidence that is absent
NoConfidence == -1

\* the decimal digits of a natural number
RECURSIVE Decimal(_)
Decimal(n) ==
    IF n < 10 THEN <<DigitSeq[n + 1]>>
    ELSE Decimal(n \div 10) \o <<DigitSeq[(n % 10) + 1]>>

-----------------------------------------------------------------------------
(* CompressionEngine: grouping *)

\* observation.category || 'general' ("" stands for an absent category)
CategoryOf(observation) ==
    IF observation.category = "" THEN "general" ELSE observation.category

\* a wrong grouping, by entity alone, that C2 must tell from GroupKey
GroupKeyByEntity(item) == item.entityName \o ":"

\* `${entityName}:${observation.category || 'general'}`
GroupKey(item) == item.entityName \o ":" \o CategoryOf(item.observation)

\* a wrong filter, which lets critical observations through, that C1 must
\* tell from SurvivesFilter
SurvivesFilterIgnoringCritical(e, item) ==
    LET observation == item.observation
    IN  /\ ~(/\ observation.confidence # NoConfidence
             /\ observation.confidence < e.options.minConfidence)
        /\ ~(/\ observation.timestamp # NoTimestamp
             /\ Now - observation.timestamp > e.options.maxObservationAge)

\* a wrong filter, which lets observations of any age through, that C35
\* must tell from SurvivesFilter
SurvivesFilterIgnoringAge(e, item) ==
    LET observation == item.observation
    IN  /\ ~(e.options.preserveCritical /\ observation.is_critical)
        /\ ~(/\ observation.confidence # NoConfidence
             /\ observation.confidence < e.options.minConfidence)

\* the three `continue` tests of _groupObservations: an item survives when
\* none of them fires.  A comparison with NaN (absent confidence, absent
\* timestamp) is false, so such an item is not skipped.
SurvivesFilter(e, item) ==
    LET observation == item.observation
    IN  /\ ~(e.options.preserveCritical /\ observation.is_critical)
        /\ ~(/\ observation.confidence # NoConfidence
             /\ observation.confidence < e.options.minConfidence)
        /\ ~(/\ observation.timestamp # NoTimestamp
             /\ Now - observation.timestamp > e.options.maxObservationAge)

\* groups[groupKey].observations.push(observation), creating the group at
\* the first observation of its key.  A member of a group is the observation
\* object itself: the model keeps its position in the list passed in (ref)
\* as the identity of that object.
AddToGroup(groups, item, ref) ==
    LET key == GroupKey(item)
        member == [ref |-> ref] @@ item.observation
    IN  IF \E g \in DOMAIN groups : groups[g].key = key
        THEN [g \in DOMAIN groups |->
                IF groups[g].key = key
                THEN [groups[g] EXCEPT !.observations = Append(@, member)]
                ELSE groups[g]]
        ELSE Append(groups, [key |-> key,
                             entityName |-> item.entityName,
                             entityType |-> item.entityType,
                             category |-> CategoryOf(item.observation),
                             observations |-> <<member>>])

RECURSIVE GroupFrom(_, _, _, _)
GroupFrom(e, observations, i, groups) ==
    IF i > Len(observations) THEN groups
    ELSE GroupFrom(e, observations, i + 1,
                   IF SurvivesFilter(e, observations[i])
                   THEN AddToGroup(groups, observations[i], i)
                   ELSE groups)

\* the groups in the order Object.entries lists them: insertion order (a
\* group key holds a ':' and so is never an integer-like property name)
_groupObservations(e, observations) == GroupFrom(e, observations, 1, <<>>)

-----------------------------------------------------------------------------
(* CompressionEngine: clustering *)

\* a wrong inner loop, which also takes observations that already belong
\* to a cluster, that C33 must tell from InnerLoop
RECURSIVE InnerLoopNoSkip(_, _, _, _, _, _)
InnerLoopNoSkip(e, observations, i, j, cluster, processed) ==
    IF j > Len(observations)
    THEN [threw |-> FALSE, cluster |-> cluster, processed |-> processed]
    ELSE IF SimilarityThrows(observations[i].content, observations[j].content)
    THEN [threw |-> TRUE, cluster |-> cluster, processed |-> processed]
    ELSE IF FracGeq(_calculateSimilarity(observations[i].content,
                                         observations[j].content),
                    e.options.similarityThreshold)
    THEN InnerLoopNoSkip(e, observations, i, j + 1,
                         Append(cluster, observations[j]), processed \cup {j})
    ELSE InnerLoopNoSkip(e, observations, i, j + 1, cluster, processed)

\* a wrong inner loop, which compares an observation with the last member
\* of the cluster instead of the seed, that C34 must tell from InnerLoop
RECURSIVE InnerLoopChained(_, _, _, _, _, _)
InnerLoopChained(e, observations, i, j, cluster, processed) ==
    IF j > Len(observations)
    THEN [threw |-> FALSE, cluster |-> cluster, processed |-> processed]
    ELSE IF j \in processed
    THEN InnerLoopChained(e, observations, i, j + 1, cluster, processed)
    ELSE IF SimilarityThrows(cluster[Len(cluster)].content,
                             observations[j].content)
    THEN [threw |-> TRUE, cluster |-> cluster, processed |-> processed]
    ELSE IF FracGeq(_calculateSimilarity(cluster[Len(cluster)].content,
                                         observations[j].content),
                    e.options.similarityThreshold)
    THEN InnerLoopChained(e, observations, i, j + 1,
                          Append(cluster, observations[j]), processed \cup {j})
    ELSE InnerLoopChained(e, observations, i, j + 1, cluster, processed)

\* the inner loop of _clusterSimilarObservations for the seed at position i:
\* every later unprocessed observation whose similarity to the seed is >=
\* similarityThreshold joins the cluster
RECURSIVE InnerLoop(_, _, _, _, _, _)
InnerLoop(e, observations, i, j, cluster, processed) ==
    IF j > Len(observations)
    THEN [threw |-> FALSE, cluster |-> cluster, processed |-> processed]
    ELSE IF j \in processed
    THEN InnerLoop(e, observations, i, j + 1, cluster, processed)
    ELSE IF SimilarityThrows(observations[i].content, observations[j].content)
    THEN [threw |-> TRUE, cluster |-> cluster, processed |-> processed]
    ELSE IF FracGeq(_calculateSimilarity(observations[i].content,
                                         observations[j].content),
                    e.options.similarityThreshold)
    THEN InnerLoop(e, observations, i, j + 1,
                   Append(cluster, observations[j]), processed \cup {j})
    ELSE InnerLoop(e, observations, i, j + 1, cluster, processed)

\* a wrong test, which keeps clusters of one observation, that C3 must tell
\* from KeepCluster
KeepCluster1(cluster) == TRUE

\* if (cluster.length > 1) clusters.push(cluster)
KeepCluster(cluster) == Len(cluster) > 1

RECURSIVE OuterLoop(_, _, _, _, _)
OuterLoop(e, observations, i, clusters, processed) ==
    IF i > Len(observations)
    THEN [threw |-> FALSE, clusters |-> clusters]
    ELSE IF i \in processed
    THEN OuterLoop(e, observations, i + 1, clusters, processed)
    ELSE LET inner == InnerLoop(e, observations, i, i + 1,
                                <<observations[i]>>, processed \cup {i})
         IN  IF inner.threw
             THEN [threw |-> TRUE, clusters |-> clusters]
             ELSE OuterLoop(e, observations, i + 1,
                            IF KeepCluster(inner.cluster)
                            THEN Append(clusters, inner.cluster)
                            ELSE clusters,
                            inner.processed)

\* the clusters of a group, or threw when a content is not a string
_clusterSimilarObservations(e, observations) ==
    OuterLoop(e, observations, 1, <<>>, {})

-----------------------------------------------------------------------------
(* CompressionEngine: summarising a cluster *)

DigitVal(c) == CHOOSE d \in 0..9 : DigitSeq[d + 1] = c

\* x < y for two numerals of the same length
RECURSIVE DigitsLess(_, _)
DigitsLess(x, y) ==
    IF x = <<>> THEN FALSE
    ELSE IF Head(x) # Head(y) THEN DigitVal(Head(x)) < DigitVal(Head(y))
    ELSE DigitsLess(Tail(x), Tail(y))

\* x <= y for two numerals without leading zeros
NumeralLeq(x, y) ==
    \/ Len(x) < Len(y)
    \/ Len(x) = Len(y) /\ ~DigitsLess(y, x)

\* 2^32 - 1, the first integer that is not an array index
MaxArrayIndex == <<"4","2","9","4","9","6","7","2","9","5">>

\* a property name that is an array index ("0", "7", "2024"): Object.entries
\* lists such keys first, in ascending numeric order, whenever they were added
IsArrayIndex(tok) ==
    /\ tok # <<>>
    /\ \A i \in DOMAIN tok : tok[i] \in Digits
    /\ (Len(tok) = 1 \/ tok[1] # "0")
    /\ NumeralLeq(tok, MaxArrayIndex)
    /\ tok # MaxArrayIndex

\* the distinct elements of arr in the order of their first occurrence
RECURSIVE Dedup(_, _)
Dedup(arr, seen) ==
    IF arr = <<>> THEN <<>>
    ELSE IF Head(arr) \in seen THEN Dedup(Tail(arr), seen)
    ELSE <<Head(arr)>> \o Dedup(Tail(arr), seen \cup {Head(arr)})

\* a set of array-index tokens in ascending numeric order
RECURSIVE AscendingKeys(_)
AscendingKeys(S) ==
    IF S = {} THEN <<>>
    ELSE LET m == CHOOSE x \in S : \A y \in S : NumeralLeq(x, y)
         IN  <<m>> \o AscendingKeys(S \ {m})

\* the keys of the counts object in the order Object.entries lists them
EntriesOrder(arr) ==
    LET first == Dedup(arr, {})
        ints == {first[i] : i \in {k \in DOMAIN first : IsArrayIndex(first[k])}}
    IN  AscendingKeys(ints) \o SelectSeq(first, LAMBDA t : ~IsArrayIndex(t))

Count(arr, item) == Cardinality({i \in DOMAIN arr : arr[i] = item})

\* the first key, in Object.entries order, whose count is the greatest
\* (count > maxCount keeps the earlier of two equal counts); <<>> is null
_getMostCommon(arr) ==
    IF arr = <<>> THEN <<>>
    ELSE LET keys == EntriesOrder(arr)
             best == CHOOSE k \in DOMAIN keys :
                        /\ \A j \in DOMAIN keys :
                              Count(arr, keys[j]) <= Count(arr, keys[k])
                        /\ \A j \in DOMAIN keys :
                              j < k => Count(arr, keys[j]) < Count(arr, keys[k])
         IN  keys[best]

\* the tokens of a sequence that are longer than 3 characters
LongWords(ws) == SelectSeq(ws, LAMBDA w : Len(w) > 3)

\* the candidates one observation contributes: words[0] as subject,
\* words[1] as action, words[2..4] as objects, when it has more than 2 words
CandidatesOf(content, role) ==
    LET words == SplitWords(content)
        last == IF Len(words) < 5 THEN Len(words) ELSE 5
    IN  IF Len(words) > 2
        THEN CASE role = "subject" -> LongWords(<<words[1]>>)
               [] role = "action"  -> LongWords(<<words[2]>>)
               [] role = "object"  -> LongWords(SubSeq(words, 3, last))
        ELSE <<>>

\* subjects, actions or objects pushed over the whole cluster, in its order
RECURSIVE Collect(_, _)
Collect(cluster, role) ==
    IF cluster = <<>> THEN <<>>
    ELSE CandidatesOf(Head(cluster).content, role)
         \o Collect(Tail(cluster), role)

OrElse(x, default) == IF x = <<>> THEN default ELSE x

\* `${mainSubject} ${mainAction} ${mainObject}` and, for more than one
\* observation, ` (observed ${cluster.length} times)`
_generateSummary(cluster) ==
    LET mainSubject == OrElse(_getMostCommon(Collect(cluster, "subject")),
                              <<"S","u","b","j","e","c","t">>)
        mainAction == OrElse(_getMostCommon(Collect(cluster, "action")),
                             <<"p","e","r","f","o","r","m","e","d"," ","a","c","t","i","o","n">>)
        mainObject == OrElse(_getMostCommon(Collect(cluster, "object")),
                             <<"o","b","j","e","c","t">>)
        summary == mainSubject \o <<" ">> \o mainAction \o <<" ">> \o mainObject
    IN  IF Len(cluster) > 1
        THEN summary \o <<" ","(","o","b","s","e","r","v","e","d"," ">> \o Decimal(Len(cluster)) \o <<" ","t","i","m","e","s",")">>
        ELSE summary

-----------------------------------------------------------------------------
(* CompressionEngine: compressing a cluster *)

\* x placed after every element whose timestamp is >= its own: one step of a
\* stable sort by timestamp, newest first
InsertByTime(sorted, x) ==
    LET before == {k \in DOMAIN sorted : sorted[k].timestamp >= x.timestamp}
        n == Cardinality({k \in DOMAIN sorted :
                            \A j \in 1..k : j \in before})
    IN  SubSeq(sorted, 1, n) \o <<x>> \o SubSeq(sorted, n + 1, Len(sorted))

RECURSIVE StableSortDesc(_)
StableSortDesc(cluster) ==
    IF cluster = <<>> THEN <<>>
    ELSE InsertByTime(StableSortDesc(SubSeq(cluster, 1, Len(cluster) - 1)),
                      cluster[Len(cluster)])

Orderings(cluster) ==
    LET n == Len(cluster)
    IN  {[i \in 1..n |-> cluster[p[i]]] :
            p \in {q \in [1..n -> 1..n] : \A i, j \in 1..n : i # j => q[i] # q[j]}}

\* [...cluster].sort((a, b) => new Date(b.timestamp) - new Date(a.timestamp)).
\* Array.prototype.sort is stable.  With an absent timestamp the comparator
\* gives NaN, which sort takes as "equal": if the valid timestamps differ the
\* comparator is then inconsistent and the order is implementation-defined.
SortOutcomes(cluster) ==
    LET valid == {cluster[i].timestamp : i \in DOMAIN cluster} \ {NoTimestamp}
    IN  IF \A i \in DOMAIN cluster : cluster[i].timestamp # NoTimestamp
        THEN {StableSortDesc(cluster)}
        ELSE IF Cardinality(valid) <= 1
        THEN {cluster}
        ELSE Orderings(cluster)

RECURSIVE SumConfidence(_)
SumConfidence(cluster) ==
    IF cluster = <<>> THEN 0
    ELSE (IF Head(cluster).confidence \in {NoConfidence, 0}
          THEN 3
          ELSE Head(cluster).confidence) + SumConfidence(Tail(cluster))

\* a wrong rounding, halves going down, that C11 must tell from RoundHalfUp
RoundHalfDown(n, d) == (2 * n + d - 1) \div (2 * d)

\* Math.round of the fraction n/d (d > 0): halves go up
RoundHalfUp(n, d) == (2 * n + d) \div (2 * d)

\* the object _compressCluster returns for a sorted cluster.  entityName and
\* members are not fields of the JavaScript object: they record the argument
\* and the identities (refs) of the observation objects the cluster holds.
CompressSorted(sortedCluster, entityName, category) ==
    [content |-> _generateSummary(sortedCluster),
     source_observations |->
        [i \in DOMAIN sortedCluster |-> sortedCluster[i].content],
     confidence |-> RoundHalfUp(SumConfidence(sortedCluster), Len(sortedCluster)),
     category |-> category,
     timestamp |-> sortedCluster[1].timestamp,
     is_critical |-> \E i \in DOMAIN sortedCluster : sortedCluster[i].is_critical,
     entityName |-> entityName,
     members |-> [i \in DOMAIN sortedCluster |-> sortedCluster[i].ref]]

\* what _compressCluster may return: the compressed observation(s) the sort
\* allows, as one-element lists, or <<>> for null (its catch) when a content
\* is not a string
_compressCluster(cluster, entityName, category) ==
    IF \E i \in DOMAIN cluster : cluster[i].content = undefinedStr
    THEN {<<>>}
    ELSE {<<CompressSorted(s, entityName, category)>> : s \in SortOutcomes(cluster)}

-----------------------------------------------------------------------------
(* CompressionEngine.compressObservations *)

\* if (group.observations.length < this.compressionThreshold) continue
GroupLargeEnough(e, group) ==
    ~(Len(group.observations) < e.compressionThreshold)

\* if (cluster.length >= this.compressionThreshold)
ClusterLargeEnough(e, cluster) == Len(cluster) >= e.compressionThreshold

\* the clusters of a list of clusters that are compressed, with the entity
\* and category of their group
ClusterJobs(e, clusters, group) ==
    LET kept == SelectSeq(clusters, LAMBDA c : ClusterLargeEnough(e, c))
    IN  [i \in DOMAIN kept |->
            [cluster |-> kept[i],
             entityName |-> group.entityName,
             category |-> group.category]]

\* the loop over Object.entries(groupedObservations): the calls of
\* _compressCluster it makes, in order, or threw when clustering a group
\* threw
RECURSIVE GroupLoop(_, _, _, _)
GroupLoop(e, groups, g, jobs) ==
    IF g > Len(groups) THEN [threw |-> FALSE, jobs |-> jobs]
    ELSE IF ~GroupLargeEnough(e, groups[g])
    THEN GroupLoop(e, groups, g + 1, jobs)
    ELSE LET clustered == _clusterSimilarObservations(e, groups[g].observations)
         IN  IF clustered.threw
             THEN [threw |-> TRUE, jobs |-> jobs]
             ELSE GroupLoop(e, groups, g + 1,
                            jobs \o ClusterJobs(e, clustered.clusters, groups[g]))

\* the lists obtained by taking one list of each set, concatenated in order
RECURSIVE ConcatChoices(_)
ConcatChoices(sets) ==
    IF sets = <<>> THEN {<<>>}
    ELSE {h \o t : h \in Head(sets), t \in ConcatChoices(Tail(sets))}

\* the lists compressObservations may return.  Everything after the first
\* test runs inside try: whatever is thrown there is caught and [] returned.
compressObservations(e, pendingObservations) ==
    IF Len(pendingObservations) = 0 THEN {<<>>}
    ELSE LET loop == GroupLoop(e, _groupObservations(e, pendingObservations),
                               1, <<>>)
         IN  IF loop.threw THEN {<<>>}
             ELSE ConcatChoices(
                    [j \in DOMAIN loop.jobs |->
                        _compressCluster(loop.jobs[j].cluster,
                                         loop.jobs[j].entityName,
                                         loop.jobs[j].category)])

-----------------------------------------------------------------------------
(* CompressionEngine.temporalCompression *)

\* day 0 of the clock is 1 January of a common year
MonthLengths == <<31, 28, 31, 30, 31, 30, 31, 31, 30, 31, 30, 31>>

\* Date.prototype.getDate: the day of the month of day t
RECURSIVE DateFrom(_, _)
DateFrom(t, m) ==
    IF t < MonthLengths[m] THEN t + 1 ELSE DateFrom(t - MonthLengths[m], m + 1)

getDate(t) == DateFrom(t, 1)

\* windowStart.setDate(windowStart.getDate() - (windowStart.getDate() %
\* timeWindowDays)): the day the window of day t starts, which stands for
\* the window key (its ISO date)
WindowKey(t, timeWindowDays) == t - (getDate(t) % timeWindowDays)

\* a wrong grouping that C21 must tell from AddToWindow: once a window
\* exists every later observation joins it, whatever its key
AddToFirstWindow(windows, key, ref) ==
    IF windows = <<>> THEN <<[key |-> key, refs |-> <<ref>>]>>
    ELSE [windows EXCEPT ![1].refs = Append(@, ref)]

\* windows[windowKey].push(obs) for the observation at position ref
AddToWindow(windows, key, ref) ==
    IF \E w \in DOMAIN windows : windows[w].key = key
    THEN [w \in DOMAIN windows |->
            IF windows[w].key = key
            THEN [windows[w] EXCEPT !.refs = Append(@, ref)]
            ELSE windows[w]]
    ELSE Append(windows, [key |-> key, refs |-> <<ref>>])

\* the windows in insertion order, each with the positions of its
\* observations; an observation without a timestamp is in none
RECURSIVE _groupByTimeWindow(_, _, _, _)
_groupByTimeWindow(observations, timeWindowDays, i, windows) ==
    IF i > Len(observations) THEN windows
    ELSE IF observations[i].observation.timestamp = NoTimestamp
    THEN _groupByTimeWindow(observations, timeWindowDays, i + 1, windows)
    ELSE _groupByTimeWindow(observations, timeWindowDays, i + 1,
            AddToWindow(windows,
                        WindowKey(observations[i].observation.timestamp,
                                  timeWindowDays),
                        i))

\* one window's compressed observations, tagged with the window key; the
\* members are renumbered to positions in the list temporalCompression got
WindowOutcomes(e, observations, window) ==
    LET formattedObs == [k \in DOMAIN window.refs |-> observations[window.refs[k]]]
    IN  {[k \in DOMAIN r |->
            [r[k] EXCEPT !.members = [m \in DOMAIN @ |-> window.refs[@[m]]]]
            @@ [time_window |-> window.key]] :
         r \in compressObservations(e, formattedObs)}

\* the lists temporalCompression may return
temporalCompression(e, observations, timeWindowDays) ==
    IF Len(observations) = 0 THEN {<<>>}
    ELSE LET timeWindows == _groupByTimeWindow(observations, timeWindowDays,
                                               1, <<>>)
         IN  ConcatChoices([w \in DOMAIN timeWindows |->
                              WindowOutcomes(e, observations, timeWindows[w])])

-----------------------------------------------------------------------------
(* The observations and configurations the model calls the engine with *)

cMemory   == <<"U","s","e","r"," ","a","s","k","e","d"," ","a","b","o","u","t"," ","m","e","m","o","r","y">>
cStorage  == <<"U","s","e","r"," ","q","u","e","s","t","i","o","n","e","d"," ","a","b","o","u","t"," ","s","t","o","r","a","g","e">>
cMemoryUp == <<"U","S","E","R"," ","a","s","k","e","d"," ","a","b","o","u","t"," ","M","e","m","o","r","y","!">>

Obs(content, timestamp, confidence, category, is_critical) ==
    [content |-> content, timestamp |-> timestamp, confidence |-> confidence,
     category |-> category, is_critical |-> is_critical]

Item(entityName, observation) ==
    [entityName |-> entityName, entityType |-> "person",
     observation |-> observation]

\* one ordinary observation and its neighbours: a loosely similar content
\* (1/3), the same content in another case (1), a critical one, a
\* low-confidence one, an old one, another entity, no category, no content,
\* no timestamp
Items ==
    { Item("e1", Obs(cMemory,      Now,         5, "goal", FALSE)),
      Item("e1", Obs(cStorage,     Now - 1,     5, "goal", FALSE)),
      Item("e1", Obs(cMemoryUp,    Now - 2,     4, "goal", FALSE)),
      Item("e1", Obs(cStorage,     Now,         5, "goal", TRUE)),
      Item("e1", Obs(cStorage,     Now,         2, "goal", FALSE)),
      Item("e1", Obs(cStorage,     Now - 8,     5, "goal", FALSE)),
      Item("e2", Obs(cStorage,     Now,         5, "goal", FALSE)),
      Item("e1", Obs(cStorage,     Now,         5, "",     FALSE)),
      Item("e1", Obs(undefinedStr, Now,         5, "goal", FALSE)),
      Item("e1", Obs(cStorage,     NoTimestamp, 5, "goal", FALSE)) }

PendingLists == UNION {[1..n -> Items] : n \in 0..MaxPending}

TimeWindows == {7, 30}

EngineOptions(similarityThreshold, preserveCritical) ==
    [similarityThreshold |-> similarityThreshold,
     maxObservationAge |-> 7,
     preserveCritical |-> preserveCritical,
     minConfidence |-> 3]

\* (threshold, options) pairs a caller constructs the engine with; the last
\* is a configuration with a negative threshold and a negative similarity
EngineConfigs ==
    { <<2, EngineOptions(Frac(2, 10), TRUE)>>,
      <<2, EngineOptions(Frac(6, 10), TRUE)>>,
      <<3, EngineOptions(Frac(6, 10), TRUE)>>,
      <<2, EngineOptions(Frac(2, 10), FALSE)>>,
      <<-1, EngineOptions(Frac(-1, 10), TRUE)>> }

-----------------------------------------------------------------------------
(* The compression engine as a state machine *)

NoEngine ==
    [constructed |-> FALSE, compressionThreshold |-> 0,
     options |-> EngineOptions(Frac(0, 1), TRUE)]

NoService == [constructed |-> FALSE]

\* no MemoryManager yet; the fields are those of the manager and of the
\* collaborators it owns: the handler's entityCache, the entities the memory
\* server holds (store), the memory file (file), and the token analyzer's
\* tracking flag and operation count

\* what the manager reads of a memory file: the entities of its short-term
\* memory, the compressed observations of its long-term memory and the
\* interaction count of its session metadata; a file that parses but has no
\* metadata and no memory sections is not well-formed
MemoryFile(entities, compressed_observations, wellFormed) ==
    [entities |-> entities,
     compressed_observations |-> compressed_observations,
     interaction_count |-> 0, wellFormed |-> wellFormed]

NoManager ==
    [constructed |-> FALSE, initialized |-> FALSE,
     compressionThreshold |-> 0, sessionActive |-> FALSE,
     pendingObservations |-> <<>>, entityCache |-> <<>>, store |-> <<>>,
     file |-> MemoryFile(<<>>, <<>>, TRUE), tracking |-> FALSE,
     operations |-> 0]

\* no PersistenceLayer yet; the fields are its options, the content of the
\* main memory file (main), the contents of the backup files in the order
\* they were written (backups) and what failed last
NoLayer ==
    [constructed |-> FALSE,
     options |-> [backupOnWrite |-> TRUE, retryAttempts |-> 3],
     main |-> [a |-> 0, b |-> 0], backups |-> <<>>, lastError |-> ""]

\* no KnowledgeGraphHandler yet.  server: the entities of the server-memory
\* process all handlers talk to; caches: the entityCache Maps created so far,
\* one for each handler constructed; cachedBy: for each handler, the names
\* its own calls have put into a cache
NoHandlers == [server |-> <<>>, caches |-> <<>>, cachedBy |-> <<>>]

\* nothing was called yet.  recorded: calls of recordObservation made; succeeded: those that returned
\* success; handed: those whose observation a successful endSession handed
\* to compressObservations; started: sessions started since the last
\* successful endSession
NoHistory == [recorded |-> 0, succeeded |-> {}, handed |-> {}, started |-> 0]

Idle ==
    /\ op = "none"
    /\ outcome = "idle"

Init ==
    /\ engine = NoEngine
    /\ service = NoService
    /\ manager = NoManager
    /\ op = "none"
    /\ args = <<>>
    /\ outcome = "idle"
    /\ result = <<>>
    /\ layer = NoLayer
    /\ calls = <<>>
    /\ history = NoHistory
    /\ handlers = NoHandlers

\* new CompressionEngine(threshold, options): the two assignments of the
\* constructor, nothing else
ConstructEngine ==
    /\ Idle
    /\ ~engine.constructed
    /\ \E cfg \in EngineConfigs :
          engine' = [constructed |-> TRUE,
                     compressionThreshold |-> cfg[1],
                     options |-> cfg[2]]
    /\ UNCHANGED <<handlers, layer, calls, history, service, manager, op, args, outcome, result>>

CallCompressObservations ==
    /\ Idle
    /\ engine.constructed
    /\ \E pendingObservations \in PendingLists :
          /\ args' = [pendingObservations |-> pendingObservations]
          /\ \E r \in compressObservations(engine, pendingObservations) :
                result' = r
    /\ op' = "compressObservations"
    /\ outcome' = "returned"
    /\ UNCHANGED <<handlers, layer, calls, history, engine, service, manager>>

CallTemporalCompression ==
    /\ Idle
    /\ engine.constructed
    /\ \E observations \in PendingLists, timeWindowDays \in TimeWindows :
          /\ args' = [pendingObservations |-> observations,
                      timeWindowDays |-> timeWindowDays]
          /\ \E r \in temporalCompression(engine, observations, timeWindowDays) :
                result' = r
    /\ op' = "temporalCompression"
    /\ outcome' = "returned"
    /\ UNCHANGED <<handlers, layer, calls, history, engine, service, manager>>

\* the caller takes the result; the engine keeps nothing of the call
Return ==
    /\ outcome # "idle"
    /\ op' = "none"
    /\ args' = <<>>
    /\ outcome' = "idle"
    /\ result' = <<>>
    /\ UNCHANGED <<handlers, layer, calls, history, engine, service, manager>>

Next ==
    \/ ConstructEngine
    \/ CallCompressObservations
    \/ CallTemporalCompression
    \/ Return

Spec == Init /\ [][Next]_vars

-----------------------------------------------------------------------------
(* Properties of compression *)

Compressed ==
    /\ op \in {"compressObservations", "temporalCompression"}
    /\ outcome = "returned"

\* the observation a member of a compressed observation stands for
Source(ref) == args.pendingObservations[ref].observation

\* an observation that passes the critical, confidence and age filters, as
\* section 4.2 of the specification words them
Eligible(item) ==
    LET o == item.observation
    IN  /\ ~(engine.options.preserveCritical /\ o.is_critical)
        /\ (o.confidence = NoConfidence \/ o.confidence >= engine.options.minConfidence)
        /\ (o.timestamp = NoTimestamp
            \/ Now - o.timestamp <= engine.options.maxObservationAge)

\* the positions of the eligible observations of one (entity, category)
EligibleOfGroup(entityName, category) ==
    {i \in DOMAIN args.pendingObservations :
        /\ Eligible(args.pendingObservations[i])
        /\ args.pendingObservations[i].entityName = entityName
        /\ CategoryOf(args.pendingObservations[i].observation) = category}

\* C1: with preserveCritical = true no critical observation is a source of a
\* compressed observation; and (whatever preserveCritical is) a compressed
\* observation is critical exactly when one of its sources is.
C1_CriticalNeverCompressed ==
    Compressed =>
        \A k \in DOMAIN result :
            /\ \A m \in DOMAIN result[k].members :
                  result[k].source_observations[m]
                      = Source(result[k].members[m]).content
            /\ engine.options.preserveCritical =>
                  \A m \in DOMAIN result[k].members :
                      ~Source(result[k].members[m]).is_critical
            /\ result[k].is_critical
                  <=> \E m \in DOMAIN result[k].members :
                          Source(result[k].members[m]).is_critical

\* C1 witness: preserveCritical is on, a critical observation was passed in
\* among similar ones, and a compressed observation came out
C1_Witness ==
    /\ Compressed
    /\ engine.options.preserveCritical
    /\ result # <<>>
    /\ \E i \in DOMAIN args.pendingObservations :
          /\ args.pendingObservations[i].observation.is_critical
          /\ args.pendingObservations[i].entityName = result[1].entityName
          /\ CategoryOf(args.pendingObservations[i].observation)
                = result[1].category

ClustersOfCall ==
    LET groups == _groupObservations(engine, args.pendingObservations)
    IN  UNION { LET c == _clusterSimilarObservations(engine, groups[g].observations)
                IN  IF c.threw THEN {} ELSE Range(c.clusters) :
                g \in {h \in DOMAIN groups : GroupLargeEnough(engine, groups[h])} }

\* similarity of two observations of the call is >= similarityThreshold
SimilarEnough(contentA, contentB) ==
    LET sim == _calculateSimilarity(contentA, contentB)
    IN  /\ sim.den # 0
        /\ sim.num * engine.options.similarityThreshold.den
              >= engine.options.similarityThreshold.num * sim.den

\* C3: every cluster the clusterer returns has at least 2 members, its first
\* member is the earliest of them in input order, and every other member is
\* similar enough to that seed; the same holds of the members of every
\* compressed observation.
C3_ClusterMembersSimilarToSeed ==
    (op = "compressObservations" /\ outcome = "returned") =>
        /\ \A c \in ClustersOfCall :
              /\ Len(c) > 1
              /\ \A m \in 2..Len(c) :
                    /\ c[1].ref < c[m].ref
                    /\ SimilarEnough(c[1].content, c[m].content)
        /\ \A k \in DOMAIN result :
              LET refs == Range(result[k].members)
                  seed == CHOOSE r \in refs : \A q \in refs : r <= q
              IN  /\ Cardinality(refs) > 1
                  /\ \A r \in refs \ {seed} :
                        SimilarEnough(Source(seed).content, Source(r).content)

\* C3 witness: a group of three was clustered into one cluster of two, the
\* third observation being too far from the seed, and the cluster was
\* compressed
C3_Witness ==
    /\ op = "compressObservations" /\ outcome = "returned"
    /\ Len(args.pendingObservations) = 3
    /\ Len(result) = 1
    /\ Len(result[1].members) = 2
    /\ \E c \in ClustersOfCall : Len(c) = 2
    /\ \E g \in DOMAIN _groupObservations(engine, args.pendingObservations) :
          Len(_groupObservations(engine, args.pendingObservations)[g].observations) = 3

\* every content of the call is a string
WellFormedContents ==
    \A i \in DOMAIN args.pendingObservations :
        args.pendingObservations[i].observation.content # undefinedStr

\* C4 (as claimed): in a group with at least compressionThreshold eligible
\* observations every cluster of 2 or more observations comes out as exactly
\* one compressed observation with one source per member.  Stated for calls
\* in which every content is a string.
C4_EveryClusterCompressed ==
    (op = "compressObservations" /\ outcome = "returned" /\ WellFormedContents) =>
        \A c \in ClustersOfCall :
            Len(c) >= 2 =>
                /\ Cardinality({k \in DOMAIN result :
                        Range(result[k].members) = {c[m].ref : m \in DOMAIN c}}) = 1
                /\ \A k \in DOMAIN result :
                        Range(result[k].members) = {c[m].ref : m \in DOMAIN c}
                            => Len(result[k].source_observations) = Len(c)

\* the fields of a compressed observation that the JavaScript object has
Visible(r) ==
    [k \in DOMAIN r |->
        [content |-> r[k].content,
         source_observations |-> r[k].source_observations,
         confidence |-> r[k].confidence,
         category |-> r[k].category,
         timestamp |-> r[k].timestamp,
         is_critical |-> r[k].is_critical,
         time_window |-> IF "time_window" \in DOMAIN r[k]
                         THEN r[k].time_window ELSE 0]]

RemoveAt(seq, i) == SubSeq(seq, 1, i - 1) \o SubSeq(seq, i + 1, Len(seq))

Malformed(item) ==
    \/ item.observation.content = undefinedStr
    \/ item.observation.timestamp = NoTimestamp

\* what the operation of the call may return for another list
OutcomesFor(list) ==
    IF op = "compressObservations"
    THEN compressObservations(engine, list)
    ELSE temporalCompression(engine, list, args.timeWindowDays)

\* C7 (as claimed): an item without content or without timestamp is
\* skipped: the call returns what it returns for the list without that item.
C7_MalformedItemSkipped ==
    Compressed =>
        \A i \in DOMAIN args.pendingObservations :
            Malformed(args.pendingObservations[i]) =>
                Visible(result) \in
                    {Visible(r) : r \in OutcomesFor(RemoveAt(args.pendingObservations, i))}

\* a configuration the specification calls invalid: a negative threshold
ValidEngineConfig(e) ==
    /\ e.compressionThreshold >= 0
    /\ e.options.similarityThreshold.num >= 0
    /\ e.options.maxObservationAge >= 0
    /\ e.options.minConfidence >= 0

\* C8 (as claimed): construction fails on an invalid configuration, so no
\* constructed engine holds one.
C8_NoEngineWithInvalidConfig ==
    engine.constructed => ValidEngineConfig(engine)

-----------------------------------------------------------------------------
(* _calculateSimilarity on its own *)

\* a letter in both cases, a second letter and a separator
SimAlphabet == {"a", "A", "b", " "}

SimTexts == UNION {[1..n -> SimAlphabet] : n \in 0..MaxLen}

CallCalculateSimilarity ==
    /\ Idle
    /\ \E contentA \in SimTexts, contentB \in SimTexts :
          /\ args' = [contentA |-> contentA, contentB |-> contentB]
          /\ result' = _calculateSimilarity(contentA, contentB)
    /\ op' = "_calculateSimilarity"
    /\ outcome' = "returned"
    /\ UNCHANGED <<handlers, layer, calls, history, engine, service, manager>>

SimNext ==
    \/ CallCalculateSimilarity
    \/ Return

SimSpec == Init /\ [][SimNext]_vars

\* C9 (as claimed): similarity is symmetric, lies in [0,1], and is 1 for a
\* non-empty text compared with itself.
C9_SimilaritySymmetricBoundedReflexive ==
    op = "_calculateSimilarity" =>
        /\ FracEq(result, _calculateSimilarity(args.contentB, args.contentA))
        /\ FracGeq(result, Frac(0, 1))
        /\ FracLeq(result, Frac(1, 1))
        /\ (args.contentA = args.contentB /\ args.contentA # <<>>)
              => FracEq(result, Frac(1, 1))

\* C10 (as claimed): when the union of the two token sets is empty the
\* result is 0, and no division by zero takes place.
C10_EmptyUnionGivesZero ==
    op = "_calculateSimilarity" =>
        /\ (SplitWords(toLowerCase(args.contentA)) = <<>>
            /\ SplitWords(toLowerCase(args.contentB)) = <<>>)
              => FracEq(result, Frac(0, 1))
        /\ result.den # 0

-----------------------------------------------------------------------------
(* RetrievalService: numbers *)

NaN == Frac(0, 0)

RECURSIVE Gcd(_, _)
Gcd(a, b) == IF b = 0 THEN a ELSE Gcd(b, a % b)

Abs(n) == IF n < 0 THEN -n ELSE n

\* the number n / d (d # 0), kept with a positive denominator in lowest terms
Quotient(n, d) ==
    LET g == Gcd(Abs(n), Abs(d))
        s == IF d < 0 THEN -1 ELSE 1
    IN  Frac((s * n) \div g, (s * d) \div g)

\* x + y and x * y of JavaScript numbers: NaN when either operand is NaN
FracAdd(x, y) ==
    IF IsNaN(x) \/ IsNaN(y) THEN NaN
    ELSE Quotient(x.num * y.den + y.num * x.den, x.den * y.den)

FracMul(x, y) ==
    IF IsNaN(x) \/ IsNaN(y) THEN NaN
    ELSE Quotient(x.num * y.num, x.den * y.den)

\* Math.max(0, x): NaN when x is NaN
MaxWithZero(x) ==
    IF IsNaN(x) THEN NaN
    ELSE IF x.num < 0 THEN Frac(0, 1) ELSE x

\* a timestamp or time attribute that new Date cannot parse: getTime() is NaN
InvalidTime == -2

\* a step function a wrong recency score could be: full inside the window
RecencyStep(daysSince, recencyWindow) ==
    IF daysSince < recencyWindow THEN Frac(1, 1) ELSE Frac(0, 1)

\* Math.max(0, 1 - (daysSince / recencyWindow)).  With recencyWindow = 0 the
\* quotient is NaN for daysSince = 0 and +Infinity for daysSince > 0 (no
\* time of the model lies in the future)
RecencyOf(daysSince, recencyWindow) ==
    IF recencyWindow = 0
    THEN IF daysSince = 0 THEN NaN ELSE Frac(0, 1)
    ELSE MaxWithZero(Quotient(recencyWindow - daysSince, recencyWindow))

\* arr.slice(0, end): a negative end counts from the end of the array
Slice(arr, end) ==
    LET n == IF end < 0
             THEN (IF Len(arr) + end < 0 THEN 0 ELSE Len(arr) + end)
             ELSE (IF end > Len(arr) THEN Len(arr) ELSE end)
    IN  SubSeq(arr, 1, n)

\* haystack.includes(needle)
Includes(haystack, needle) ==
    \E i \in 1..(Len(haystack) - Len(needle) + 1) :
        SubSeq(haystack, i, i + Len(needle) - 1) = needle

-----------------------------------------------------------------------------
(* RetrievalService._extractKeywords *)

stopWords ==
    { <<"t","h","e">>, <<"a","n","d">>, <<"a","r","e">>, <<"f","o","r">>, <<"w","a","s">>, <<"t","h","a","t">>,
      <<"t","h","i","s">>, <<"w","i","t","h">>, <<"h","a","v","e">>, <<"f","r","o","m">>, <<"w","h","a","t">>, <<"w","h","i","c","h">>,
      <<"w","h","e","n">>, <<"w","h","e","r","e">>, <<"w","h","o">>, <<"w","i","l","l">>, <<"w","o","u","l","d">>, <<"t","h","e","r","e">>,
      <<"t","h","e","i","r">>, <<"a","b","o","u","t">>, <<"s","h","o","u","l","d">>, <<"c","o","u","l","d">>, <<"b","e","e","n">>, <<"m","o","r","e">>,
      <<"v","e","r","y">>, <<"s","o","m","e">>, <<"o","t","h","e","r">>, <<"t","h","e","n">> }

_isStopWord(word) == word \in stopWords

\* contextText.toLowerCase().replace(/[^\w\s]/g, ' ').split(/\s+/).filter(...):
\* the maximal runs of word characters that are longer than 3 characters and
\* are no stop word
KeywordTokens(contextText) ==
    SelectSeq(SplitWords(toLowerCase(contextText)),
              LAMBDA word : Len(word) > 3 /\ ~_isStopWord(word))

\* x placed after every entry whose count is >= its own: one step of the
\* stable sort((a, b) => b[1] - a[1])
InsertByCount(sorted, x) ==
    LET n == Cardinality({k \in DOMAIN sorted :
                            \A j \in 1..k : sorted[j].count >= x.count})
    IN  SubSeq(sorted, 1, n) \o <<x>> \o SubSeq(sorted, n + 1, Len(sorted))

RECURSIVE SortByCount(_)
SortByCount(entries) ==
    IF entries = <<>> THEN <<>>
    ELSE InsertByCount(SortByCount(SubSeq(entries, 1, Len(entries) - 1)),
                       entries[Len(entries)])

\* JSON.stringify(undefined) is undefined, and undefined.toLowerCase() throws
ExtractKeywordsThrows(contextText) == contextText = undefinedStr

\* the ten most frequent tokens of the context, Object.entries order among
\* equally frequent ones
_extractKeywords(contextText) ==
    LET tokens == KeywordTokens(contextText)
        keys == EntriesOrder(tokens)
        wordCounts == [k \in DOMAIN keys |->
                         [word |-> keys[k], count |-> Count(tokens, keys[k])]]
        top == Slice(SortByCount(wordCounts), 10)
    IN  [k \in DOMAIN top |-> top[k].word]

-----------------------------------------------------------------------------
(* RetrievalService: scoring *)

\* the month (1..12) of day t of the year
RECURSIVE MonthFrom(_, _)
MonthFrom(t, m) ==
    IF t < MonthLengths[m] THEN m ELSE MonthFrom(t - MonthLengths[m], m + 1)

Pad2(n) == IF n < 10 THEN <<"0">> \o Decimal(n) ELSE Decimal(n)

\* new Date().toISOString() for day t
toISOString(t) ==
    <<"2","0","2","3","-">> \o Pad2(MonthFrom(t, 1)) \o <<"-">> \o Pad2(getDate(t))
    \o <<"T","0","0",":","0","0",":","0","0",".","0","0","0","Z">>

\* the string a timestamp is stored as; "soon" is one that new Date cannot
\* parse
TimestampText(t) == IF t = InvalidTime THEN <<"s","o","o","n">> ELSE toISOString(t)

Quoted(s) == <<"\"">> \o s \o <<"\"">>

\* the elements of a sequence of texts joined by commas
RECURSIVE JoinComma(_)
JoinComma(texts) ==
    IF texts = <<>> THEN <<>>
    ELSE IF Len(texts) = 1 THEN texts[1]
    ELSE texts[1] \o <<",">> \o JoinComma(Tail(texts))

\* the characters of the category names of the model
CategoryText ==
    [goal |-> <<"g","o","a","l">>, preference |-> <<"p","r","e","f","e","r","e","n","c","e">>, behavior |-> <<"b","e","h","a","v","i","o","r">>]

\* JSON.stringify of an observation: a property whose value is undefined is
\* left out (no content of the model needs escaping)
ObservationJSON(obs) ==
    LET content == IF obs.content = undefinedStr THEN <<>>
                   ELSE <<<<"\"","c","o","n","t","e","n","t","\"",":">> \o Quoted(obs.content)>>
        timestamp == IF obs.timestamp = NoTimestamp THEN <<>>
                     ELSE <<<<"\"","t","i","m","e","s","t","a","m","p","\"",":">> \o Quoted(TimestampText(obs.timestamp))>>
        confidence == IF obs.confidence = NoConfidence THEN <<>>
                      ELSE <<<<"\"","c","o","n","f","i","d","e","n","c","e","\"",":">> \o Decimal(obs.confidence)>>
        category == IF obs.category = "" THEN <<>>
                    ELSE <<<<"\"","c","a","t","e","g","o","r","y","\"",":">> \o Quoted(CategoryText[obs.category])>>
        is_critical == <<<<"\"","i","s","_","c","r","i","t","i","c","a","l","\"",":">> \o
                         (IF obs.is_critical THEN <<"t","r","u","e">> ELSE <<"f","a","l","s","e">>)>>
    IN  <<"{">> \o JoinComma(content \o timestamp \o confidence \o category
                            \o is_critical) \o <<"}">>

\* JSON.stringify(entity)
EntityJSON(entity) ==
    <<"{","\"","n","a","m","e","\"",":">> \o Quoted(entity.name)
    \o <<",","\"","e","n","t","i","t","y","T","y","p","e","\"",":">> \o Quoted(entity.entityType)
    \o <<",","\"","o","b","s","e","r","v","a","t","i","o","n","s","\"",":","[">>
    \o JoinComma([k \in DOMAIN entity.observations |->
                    ObservationJSON(entity.observations[k])])
    \o <<"]","}">>

\* matches / keywords.length over the JSON text of the entity
_calculateRelevanceScore(entity, keywords) ==
    LET entityString == toLowerCase(EntityJSON(entity))
        matches == Cardinality({k \in DOMAIN keywords :
                                  Includes(entityString, toLowerCase(keywords[k]))})
    IN  IF Len(keywords) > 0 THEN Quotient(matches, Len(keywords))
        ELSE Frac(0, 1)

\* obs.timestamp ? new Date(obs.timestamp).getTime() : 0, kept when > 0
ValidTimestamps(observations) ==
    {observations[k].timestamp : k \in DOMAIN observations}
        \ {NoTimestamp, InvalidTime}

Max(S) == CHOOSE x \in S : \A y \in S : y <= x

_calculateRecencyScore(s, entity) ==
    LET timestamps == ValidTimestamps(entity.observations)
    IN  IF timestamps = {} THEN Frac(0, 1)
        ELSE RecencyOf(Now - Max(timestamps), s.options.recencyWindow)

\* obs.confidence || 0
ConfidenceOrZero(obs) ==
    IF obs.confidence = NoConfidence THEN 0 ELSE obs.confidence

RECURSIVE Sum(_)
Sum(numbers) ==
    IF numbers = <<>> THEN 0 ELSE Head(numbers) + Sum(Tail(numbers))

_calculateConfidenceScore(entity) ==
    LET confidences ==
            SelectSeq([k \in DOMAIN entity.observations |->
                         ConfidenceOrZero(entity.observations[k])],
                      LAMBDA confidence : confidence > 0)
    IN  IF Len(confidences) = 0 THEN Frac(0, 1)
        ELSE Quotient(Sum(confidences), 5 * Len(confidences))

\* weights.relevance * relevance + weights.recency * recency +
\* weights.confidence * confidence
WeightedSum(weights, relevance, recency, confidence) ==
    FracAdd(FracAdd(FracMul(weights.relevance, relevance),
                    FracMul(weights.recency, recency)),
            FracMul(weights.confidence, confidence))

\* the weights and the recency window are those of the constructor
_scoreEntities(s, entities, keywords) ==
    [k \in DOMAIN entities |->
        LET entity == entities[k]
            relevanceScore == _calculateRelevanceScore(entity, keywords)
            recencyScore == _calculateRecencyScore(s, entity)
            confidenceScore == _calculateConfidenceScore(entity)
        IN  [name |-> entity.name,
             entityType |-> entity.entityType,
             observations |-> entity.observations,
             score |-> WeightedSum(s.options.weights, relevanceScore,
                                   recencyScore, confidenceScore),
             scores |-> [relevance |-> relevanceScore,
                         recency |-> recencyScore,
                         confidence |-> confidenceScore]]]

\* base 1.0 or 0.5, + 0.3 if critical, + the recency boost if the relation
\* has a time: Math.max(0, 0.2 * x) is 0.2 * Math.max(0, x) for every x
_scoreRelations(s, relations, topEntities) ==
    LET entityNames == {topEntities[k].name : k \in DOMAIN topEntities}
    IN  [k \in DOMAIN relations |->
           LET relation == relations[k]
               connectsTopEntities == /\ relation.from \in entityNames
                                      /\ relation.to \in entityNames
               base == IF connectsTopEntities THEN Frac(1, 1) ELSE Frac(1, 2)
               critical == IF relation.attributes.present
                              /\ relation.attributes.is_critical
                           THEN Frac(3, 10) ELSE Frac(0, 1)
               recencyBoost ==
                   IF relation.attributes.present
                      /\ relation.attributes.time # NoTimestamp
                   THEN IF relation.attributes.time = InvalidTime THEN NaN
                        ELSE FracMul(Frac(2, 10),
                                     RecencyOf(Now - relation.attributes.time,
                                               s.options.recencyWindow))
                   ELSE Frac(0, 1)
           IN  [from |-> relation.from, to |-> relation.to,
                relationType |-> relation.relationType,
                attributes |-> relation.attributes,
                score |-> FracAdd(FracAdd(base, critical), recencyBoost)]]

-----------------------------------------------------------------------------
(* RetrievalService: sorting by score, observations of an entity *)

\* x placed after every element whose score is >= its own: one step of the
\* stable sort((a, b) => b.score - a.score)
InsertByScore(sorted, x) ==
    LET n == Cardinality({k \in DOMAIN sorted :
                            \A j \in 1..k : FracGeq(sorted[j].score, x.score)})
    IN  SubSeq(sorted, 1, n) \o <<x>> \o SubSeq(sorted, n + 1, Len(sorted))

RECURSIVE StableSortByScore(_)
StableSortByScore(list) ==
    IF list = <<>> THEN <<>>
    ELSE InsertByScore(StableSortByScore(SubSeq(list, 1, Len(list) - 1)),
                       list[Len(list)])

\* list.sort((a, b) => b.score - a.score).  A NaN score makes the comparator
\* give NaN, which sort takes as "equal": if the other scores differ the
\* comparator is inconsistent and the order is implementation-defined.
SortByScoreOutcomes(list) ==
    LET scores == {list[k].score : k \in DOMAIN list}
        numbers == {x \in scores : ~IsNaN(x)}
    IN  IF numbers = scores THEN {StableSortByScore(list)}
        ELSE IF Cardinality(numbers) <= 1 THEN {list}
        ELSE Orderings(list)

\* the recency score _filterAndSortObservations gives an observation: 0
\* without a timestamp, NaN for one that cannot be parsed
ObservationRecency(obs, recencyWindow) ==
    IF obs.timestamp = NoTimestamp THEN Frac(0, 1)
    ELSE IF obs.timestamp = InvalidTime THEN NaN
    ELSE RecencyOf(Now - obs.timestamp, recencyWindow)

\* the total score _filterAndSortObservations gives an observation
ObservationScore(obs, keywords, options) ==
    LET hits == Cardinality(
                    {k \in DOMAIN keywords :
                        /\ obs.content # undefinedStr
                        /\ Includes(toLowerCase(obs.content),
                                    toLowerCase(keywords[k]))})
        relevanceScore ==
            Quotient(hits, IF Len(keywords) > 1 THEN Len(keywords) ELSE 1)
        recencyScore == ObservationRecency(obs, options.recencyWindow)
        confidenceScore == Quotient(ConfidenceOrZero(obs), 5)
        criticalBonus == IF obs.is_critical THEN Frac(1, 2) ELSE Frac(0, 1)
    IN  FracAdd(WeightedSum(options.weights, relevanceScore, recencyScore,
                            confidenceScore),
                criticalBonus)

\* the lists _filterAndSortObservations may return
_filterAndSortObservations(observations, keywords, options) ==
    IF Len(observations) = 0 THEN {<<>>}
    ELSE LET filteredObservations ==
                 SelectSeq(observations,
                           LAMBDA obs :
                               ConfidenceOrZero(obs) >= options.minConfidence)
             scoredObservations ==
                 [k \in DOMAIN filteredObservations |->
                     [score |-> ObservationScore(filteredObservations[k],
                                                 keywords, options)]
                     @@ filteredObservations[k]]
         IN  {Slice(sorted, options.maxObservationsPerEntity) :
                 sorted \in SortByScoreOutcomes(scoredObservations)}

-----------------------------------------------------------------------------
(* The graph collaborator: an in-memory graph whose calls may fail *)

\* what a call of the collaborator's method does: "ok", "throws" (rejects
\* with an Error), "rejects" (rejects with undefined) or "null" (resolves to
\* null)
GraphCall(graph, method) ==
    IF graph.fail.method = method THEN graph.fail.kind ELSE "ok"

NothingThrown == [kind |-> "none", message |-> ""]
Error(message) == [kind |-> "Error", message |-> message]
ThrownUndefined == [kind |-> "undefined", message |-> ""]

\* what a failing call of the method throws into the caller
Failed(graph, method) ==
    IF GraphCall(graph, method) = "throws"
    THEN Error(method \o " failed")
    ELSE ThrownUndefined

\* getEntity(entityName): the entity of that name, <<>> for null
getEntity(graph, entityName) ==
    LET found == SelectSeq(graph.entities, LAMBDA e : e.name = entityName)
    IN  IF found = <<>> THEN <<>> ELSE <<found[1]>>

\* search(query): the entities whose name, type or observations contain the
\* query, whatever the case
search(graph, query) ==
    SelectSeq(graph.entities,
              LAMBDA e :
                  \/ Includes(toLowerCase(e.name), toLowerCase(query))
                  \/ Includes(toLowerCase(e.entityType), toLowerCase(query))
                  \/ \E k \in DOMAIN e.observations :
                        /\ e.observations[k].content # undefinedStr
                        /\ Includes(toLowerCase(e.observations[k].content),
                                    toLowerCase(query)))

\* getEntityRelations(entityName): the relations from or to the entity
getEntityRelations(graph, entityName) ==
    SelectSeq(graph.relations,
              LAMBDA relation : \/ relation.from = entityName
                                \/ relation.to = entityName)

\* the concatenation of a sequence of sequences
RECURSIVE Flatten(_)
Flatten(lists) ==
    IF lists = <<>> THEN <<>> ELSE Head(lists) \o Flatten(Tail(lists))

-----------------------------------------------------------------------------
(* RetrievalService.retrieveRelevantMemories *)

\* the loop over targetEntities: the first failing getEntity ends it
GetEntities(graph, entityNames) ==
    IF GraphCall(graph, "getEntity") \in {"throws", "rejects"}
    THEN [thrown |-> Failed(graph, "getEntity"), entities |-> <<>>]
    ELSE IF GraphCall(graph, "getEntity") = "null"
    THEN [thrown |-> NothingThrown, entities |-> <<>>]
    ELSE [thrown |-> NothingThrown,
          entities |-> Flatten([k \in DOMAIN entityNames |->
                                   getEntity(graph, entityNames[k])])]

\* _removeDuplicateEntities: the first entity of each name
RECURSIVE _removeDuplicateEntities(_, _)
_removeDuplicateEntities(entities, entityNames) ==
    IF entities = <<>> THEN <<>>
    ELSE IF Head(entities).name \in entityNames
    THEN _removeDuplicateEntities(Tail(entities), entityNames)
    ELSE <<Head(entities)>>
         \o _removeDuplicateEntities(Tail(entities),
                                     entityNames \cup {Head(entities).name})

\* the loop over keywords: a null search result is skipped
SearchEntities(graph, keywords) ==
    IF Len(keywords) = 0
    THEN [thrown |-> NothingThrown, entities |-> <<>>]
    ELSE IF GraphCall(graph, "search") \in {"throws", "rejects"}
    THEN [thrown |-> Failed(graph, "search"), entities |-> <<>>]
    ELSE IF GraphCall(graph, "search") = "null"
    THEN [thrown |-> NothingThrown, entities |-> <<>>]
    ELSE [thrown |-> NothingThrown,
          entities |-> _removeDuplicateEntities(
                           Flatten([k \in DOMAIN keywords |->
                                       search(graph, keywords[k])]), {})]

\* the loop over topEntities: spreading a null result throws a TypeError
GetRelations(graph, topEntities) ==
    IF Len(topEntities) = 0
    THEN [thrown |-> NothingThrown, relations |-> <<>>]
    ELSE IF GraphCall(graph, "getEntityRelations") \in {"throws", "rejects"}
    THEN [thrown |-> Failed(graph, "getEntityRelations"), relations |-> <<>>]
    ELSE IF GraphCall(graph, "getEntityRelations") = "null"
    THEN [thrown |-> Error("entityRelations is not iterable"),
          relations |-> <<>>]
    ELSE [thrown |-> NothingThrown,
          relations |-> Flatten([k \in DOMAIN topEntities |->
                                    getEntityRelations(graph,
                                                       topEntities[k].name)])]

\* the catch block: { entities: [], relations: [], error: error.message };
\* reading .message of undefined throws a TypeError out of the catch block
Caught(thrown) ==
    IF thrown.kind = "Error"
    THEN [outcome |-> "returned",
          result |-> [entities |-> <<>>, relations |-> <<>>,
                      error |-> thrown.message]]
    ELSE [outcome |-> "threw",
          result |-> [error |-> "Cannot read properties of undefined (reading 'message')"]]

\* the sequences that take one element of each set of a sequence of sets
RECURSIVE Choices(_)
Choices(sets) ==
    IF sets = <<>> THEN {<<>>}
    ELSE {<<x>> \o rest : x \in Head(sets), rest \in Choices(Tail(sets))}

\* topEntities.map(entity => ({...entity, observations: ...}))
ProcessedEntities(topEntities, keywords, retrievalOptions) ==
    {[k \in DOMAIN topEntities |->
         [topEntities[k] EXCEPT !.observations = chosen[k]]] :
     chosen \in Choices([k \in DOMAIN topEntities |->
                            _filterAndSortObservations(
                                topEntities[k].observations, keywords,
                                retrievalOptions)])}

\* lines 81-116, once the top entities are known
WithTopEntities(s, graph, keywords, retrievalOptions, topEntities) ==
    LET fetched == GetRelations(graph, topEntities)
    IN  IF fetched.thrown.kind # "none" THEN {Caught(fetched.thrown)}
        ELSE {[outcome |-> "returned",
               result |-> [entities |-> processedEntities,
                           relations |-> Slice(sortedRelations,
                                               retrievalOptions.maxRelations),
                           context |-> [keywords |-> keywords,
                                        retrievalOptions |-> retrievalOptions]]] :
              sortedRelations \in SortByScoreOutcomes(
                                      _scoreRelations(s, fetched.relations,
                                                      topEntities)),
              processedEntities \in ProcessedEntities(topEntities, keywords,
                                                      retrievalOptions)}

\* the (outcome, result) pairs a call may end with
retrieveRelevantMemories(s, graph, context, targetEntities, options) ==
    LET retrievalOptions == options @@ s.options
    IN  IF ExtractKeywordsThrows(context)
        THEN {Caught(Error("Cannot read properties of undefined (reading 'toLowerCase')"))}
        ELSE LET keywords == _extractKeywords(context)
                 fetched == IF Len(targetEntities) > 0
                            THEN GetEntities(graph, targetEntities)
                            ELSE SearchEntities(graph, keywords)
             IN  IF fetched.thrown.kind # "none" THEN {Caught(fetched.thrown)}
                 ELSE UNION {WithTopEntities(s, graph, keywords,
                                 retrievalOptions,
                                 Slice(scoredEntities,
                                       retrievalOptions.maxEntities)) :
                             scoredEntities \in
                                 SortByScoreOutcomes(
                                     _scoreEntities(s, fetched.entities,
                                                    keywords))}

-----------------------------------------------------------------------------
(* RetrievalService: retrieveByCategory, retrieveCriticalMemories,
   retrieveByTimeRange *)

\* (await knowledgeGraph.exportGraph()).entities || []: reading .entities of
\* a null graph throws a TypeError
ExportEntities(graph) ==
    IF GraphCall(graph, "exportGraph") \in {"throws", "rejects"}
    THEN [thrown |-> Failed(graph, "exportGraph"), entities |-> <<>>]
    ELSE IF GraphCall(graph, "exportGraph") = "null"
    THEN [thrown |-> Error("Cannot read properties of null (reading 'entities')"),
          entities |-> <<>>]
    ELSE [thrown |-> NothingThrown, entities |-> graph.entities]

\* the entities the three operations start from
EntitiesFor(graph, entityNames) ==
    IF Len(entityNames) > 0 THEN GetEntities(graph, entityNames)
    ELSE ExportEntities(graph)

\* graph && graph.relations ? graph.relations : [] of a second exportGraph
ExportRelations(graph) ==
    IF GraphCall(graph, "exportGraph") \in {"throws", "rejects"}
    THEN [thrown |-> Failed(graph, "exportGraph"), relations |-> <<>>]
    ELSE IF GraphCall(graph, "exportGraph") = "null"
    THEN [thrown |-> NothingThrown, relations |-> <<>>]
    ELSE [thrown |-> NothingThrown, relations |-> graph.relations]

\* entities.filter(entity => entity.observations.length > 0)
KeepNonEmpty(entities) ==
    SelectSeq(entities, LAMBDA entity : Len(entity.observations) > 0)

\* the catch block of retrieveByCategory
CaughtByCategory(thrown, category) ==
    IF thrown.kind = "Error"
    THEN [outcome |-> "returned",
          result |-> [category |-> category, entities |-> <<>>,
                      error |-> thrown.message]]
    ELSE Caught(thrown)

retrieveByCategory(s, graph, category, entityNames, options) ==
    LET fetched == EntitiesFor(graph, entityNames)
        mergedOptions == options @@ s.options
        filteredEntities ==
            KeepNonEmpty([k \in DOMAIN fetched.entities |->
                [fetched.entities[k] EXCEPT
                    !.observations =
                        SelectSeq(@, LAMBDA obs : obs.category = category)]])
    IN  IF fetched.thrown.kind # "none"
        THEN {CaughtByCategory(fetched.thrown, category)}
        ELSE {[outcome |-> "returned",
               result |-> [category |-> category,
                           entities |-> processedEntities]] :
              processedEntities \in ProcessedEntities(filteredEntities, <<>>,
                                                      mergedOptions)}

\* a wrong filter that C14 must tell from IsCritical: it also applies the
\* default minConfidence
IsCriticalAndConfident(obs) == obs.is_critical /\ obs.confidence >= 3

\* obs.is_critical === true
IsCritical(obs) == obs.is_critical

retrieveCriticalMemories(graph, entityNames) ==
    LET fetched == EntitiesFor(graph, entityNames)
        criticalEntities ==
            KeepNonEmpty([k \in DOMAIN fetched.entities |->
                [fetched.entities[k] EXCEPT
                    !.observations =
                        SelectSeq(@, LAMBDA obs : IsCritical(obs))]])
        exported == ExportRelations(graph)
    IN  IF fetched.thrown.kind # "none" THEN {Caught(fetched.thrown)}
        ELSE IF exported.thrown.kind # "none" THEN {Caught(exported.thrown)}
        ELSE {[outcome |-> "returned",
               result |-> [entities |-> criticalEntities,
                           relations |->
                               SelectSeq(exported.relations,
                                   LAMBDA relation :
                                       /\ relation.attributes.present
                                       /\ relation.attributes.is_critical)]]}

\* a wrong comparison that C15 must tell from InTimeRange: both bounds are
\* exclusive
InTimeRangeExclusive(t, timeRange) ==
    /\ t \notin {NoTimestamp, InvalidTime}
    /\ timeRange.startDate # InvalidTime
    /\ timeRange.endDate # InvalidTime
    /\ t > (IF timeRange.startDate = NoTimestamp THEN 0
            ELSE timeRange.startDate)
    /\ t < (IF timeRange.endDate = NoTimestamp THEN Now
            ELSE timeRange.endDate)

\* startDate ? new Date(startDate).getTime() : 0 and
\* endDate ? new Date(endDate).getTime() : Date.now()
InTimeRange(t, timeRange) ==
    /\ t \notin {NoTimestamp, InvalidTime}
    /\ timeRange.startDate # InvalidTime
    /\ timeRange.endDate # InvalidTime
    /\ t >= (IF timeRange.startDate = NoTimestamp THEN 0
             ELSE timeRange.startDate)
    /\ t <= (IF timeRange.endDate = NoTimestamp THEN Now
             ELSE timeRange.endDate)

\* the catch block of retrieveByTimeRange
CaughtByTimeRange(thrown, timeRange) ==
    IF thrown.kind = "Error"
    THEN [outcome |-> "returned",
          result |-> [timeRange |-> timeRange, entities |-> <<>>,
                      relations |-> <<>>, error |-> thrown.message]]
    ELSE Caught(thrown)

\* new Date(startDate).toISOString() throws a RangeError on an invalid date
retrieveByTimeRange(graph, timeRange, entityNames) ==
    LET fetched == EntitiesFor(graph, entityNames)
        filteredEntities ==
            KeepNonEmpty([k \in DOMAIN fetched.entities |->
                [fetched.entities[k] EXCEPT
                    !.observations =
                        SelectSeq(@, LAMBDA obs :
                                         InTimeRange(obs.timestamp, timeRange))]])
        exported == ExportRelations(graph)
    IN  IF fetched.thrown.kind # "none"
        THEN {CaughtByTimeRange(fetched.thrown, timeRange)}
        ELSE IF exported.thrown.kind # "none"
        THEN {CaughtByTimeRange(exported.thrown, timeRange)}
        ELSE IF InvalidTime \in {timeRange.startDate, timeRange.endDate}
        THEN {CaughtByTimeRange(Error("Invalid time value"), timeRange)}
        ELSE {[outcome |-> "returned",
               result |->
                   [timeRange |->
                        [startDate |->
                             IF timeRange.startDate = NoTimestamp
                             THEN <<"b","e","g","i","n","n","i","n","g">>
                             ELSE toISOString(timeRange.startDate),
                         endDate |->
                             IF timeRange.endDate = NoTimestamp
                             THEN toISOString(Now)
                             ELSE toISOString(timeRange.endDate)],
                    entities |-> filteredEntities,
                    relations |->
                        SelectSeq(exported.relations,
                            LAMBDA relation :
                                /\ relation.attributes.present
                                /\ InTimeRange(relation.attributes.time,
                                               timeRange))]]}

-----------------------------------------------------------------------------
(* The graphs, contexts and options the model calls the service with *)

MaxGraphEntities == 2

Entity(name, entityType, observations) ==
    [name |-> name, entityType |-> entityType, observations |-> observations]

Relation(from, to, relationType, attributes) ==
    [from |-> from, to |-> to, relationType |-> relationType,
     attributes |-> attributes]

\* relation.attributes: absent, or { is_critical, time }
NoAttributes == [present |-> FALSE, is_critical |-> FALSE, time |-> NoTimestamp]
Attributes(is_critical, time) ==
    [present |-> TRUE, is_critical |-> is_critical, time |-> time]

nAlice  == <<"A","l","i","c","e">>
nBob    == <<"B","o","b">>
nCarol  == <<"C","a","r","o","l">>
nMemory == <<"M","e","m","o","r","y">>
nDave   == <<"D","a","v","e">>

\* an entity with a recent, a critical low-confidence and an old observation;
\* one with a single observation; one without observations; one with an
\* observation whose timestamp cannot be parsed
Entities ==
    { Entity(nAlice, <<"p","e","r","s","o","n">>,
             << Obs(cMemory,   Now,      5, "goal",       FALSE),
                Obs(cStorage,  Now - 1,  2, "goal",       TRUE),
                Obs(cMemoryUp, Now - 40, 4, "preference", FALSE) >>),
      Entity(nBob, <<"p","e","r","s","o","n">>,
             << Obs(cStorage, Now - 3, 4, "preference", FALSE) >>),
      Entity(nCarol, <<"p","r","o","j","e","c","t">>, <<>>),
      Entity(nMemory, <<"t","o","p","i","c">>,
             << Obs(cStorage, InvalidTime, 3, "goal", FALSE),
                Obs(cMemory,  Now - 2,     3, "goal", TRUE) >>) }

\* the lists of at most MaxGraphEntities entities of distinct names
EntityLists ==
    UNION {{es \in [1..n -> Entities] :
               \A i, j \in 1..n : i # j => es[i].name # es[j].name} :
           n \in 0..MaxGraphEntities}

rKnows   == Relation(nAlice, nBob, "knows", Attributes(TRUE, Now - 3))
rWorksOn == Relation(nBob, nCarol, "works_on", NoAttributes)
rUses    == Relation(nAlice, nMemory, "uses", Attributes(FALSE, InvalidTime))

RelationLists == { <<>>, <<rWorksOn, rKnows>>, <<rKnows, rUses, rWorksOn>> }

NoFailure == [method |-> "none", kind |-> "ok"]

Failures ==
    [method : {"getEntity", "search", "getEntityRelations", "exportGraph"},
     kind : {"throws", "rejects", "null"}]

\* every graph without failure, and one graph for each failure
Graphs ==
    {[entities |-> es, relations |-> rs, fail |-> NoFailure] :
        es \in EntityLists, rs \in RelationLists}
    \cup
    {[entities |-> << Entity(nAlice, <<"p","e","r","s","o","n">>,
                             << Obs(cMemory, Now, 5, "goal", TRUE) >>),
                      Entity(nBob, <<"p","e","r","s","o","n">>,
                             << Obs(cStorage, Now - 3, 4, "preference", FALSE) >>) >>,
      relations |-> <<rKnows>>,
      fail |-> f] : f \in Failures}

\* a context string, another one, and an undefined context
cxMemory  == <<"W","h","a","t"," ","a","b","o","u","t"," ","m","e","m","o","r","y"," ","a","n","d"," ","s","t","o","r","a","g","e"," ","o","f"," ","A","l","i","c","e","?"," ","M","e","m","o","r","y","!">>
cxContent == <<"B","o","b"," ","q","u","e","s","t","i","o","n","e","d"," ","t","h","e"," ","c","o","n","t","e","n","t">>

Contexts == {cxMemory, cxContent, undefinedStr}

TargetLists == { <<>>, <<nAlice>>, <<nBob, nAlice, nDave>> }

Weights(relevance, recency, confidence) ==
    [relevance |-> relevance, recency |-> recency, confidence |-> confidence]

\* the options a call passes: none, smaller limits, a negative limit, weights
\* that name the relevance only (the other two are undefined, and undefined
\* times a number is NaN), other thresholds, a minConfidence above the
\* confidence of some observations
CallOptions ==
    { <<>>,
      [minConfidence |-> 5],
      [maxEntities |-> 1, maxRelations |-> 1],
      [maxEntities |-> -1],
      [weights |-> Weights(Frac(1, 1), NaN, NaN)],
      [minConfidence |-> 1, maxObservationsPerEntity |-> 1,
       recencyWindow |-> 7] }

\* this.options of the constructor: the defaults overridden by the options
DefaultServiceOptions ==
    [maxEntities |-> 10, maxObservationsPerEntity |-> 5, maxRelations |-> 20,
     minConfidence |-> 3, recencyWindow |-> 30,
     weights |-> Weights(Frac(4, 10), Frac(3, 10), Frac(3, 10))]

ServiceConfigs ==
    { <<>>,
      [maxEntities |-> 1, maxRelations |-> 2],
      [maxEntities |-> -1, maxRelations |-> -1] }

Categories == {"goal", "preference"}

TimeRanges ==
    { [startDate |-> NoTimestamp, endDate |-> NoTimestamp],
      [startDate |-> Now - 3, endDate |-> Now - 1],
      [startDate |-> InvalidTime, endDate |-> NoTimestamp] }

-----------------------------------------------------------------------------
(* The retrieval service as a state machine *)

\* new RetrievalService(options): the assignment of the constructor, nothing
\* else
ConstructService ==
    /\ Idle
    /\ ~service.constructed
    /\ \E options \in ServiceConfigs :
          service' = [constructed |-> TRUE,
                      options |-> options @@ DefaultServiceOptions]
    /\ UNCHANGED <<handlers, layer, calls, history, engine, manager, op, args, outcome, result>>

CallRetrieveRelevantMemories ==
    /\ Idle
    /\ service.constructed
    /\ \E knowledgeGraph \in Graphs, context \in Contexts,
          targetEntities \in TargetLists, options \in CallOptions :
          /\ args' = [knowledgeGraph |-> knowledgeGraph, context |-> context,
                      targetEntities |-> targetEntities, options |-> options]
          /\ \E r \in retrieveRelevantMemories(service, knowledgeGraph,
                                               context, targetEntities,
                                               options) :
                /\ outcome' = r.outcome
                /\ result' = r.result
    /\ op' = "retrieveRelevantMemories"
    /\ UNCHANGED <<handlers, layer, calls, history, engine, service, manager>>

CallRetrieveByCategory ==
    /\ Idle
    /\ service.constructed
    /\ \E knowledgeGraph \in Graphs, category \in Categories,
          entityNames \in TargetLists, options \in CallOptions :
          /\ args' = [knowledgeGraph |-> knowledgeGraph,
                      category |-> category, entityNames |-> entityNames,
                      options |-> options]
          /\ \E r \in retrieveByCategory(service, knowledgeGraph, category,
                                         entityNames, options) :
                /\ outcome' = r.outcome
                /\ result' = r.result
    /\ op' = "retrieveByCategory"
    /\ UNCHANGED <<handlers, layer, calls, history, engine, service, manager>>

CallRetrieveCriticalMemories ==
    /\ Idle
    /\ service.constructed
    /\ \E knowledgeGraph \in Graphs, entityNames \in TargetLists :
          /\ args' = [knowledgeGraph |-> knowledgeGraph,
                      entityNames |-> entityNames]
          /\ \E r \in retrieveCriticalMemories(knowledgeGraph, entityNames) :
                /\ outcome' = r.outcome
                /\ result' = r.result
    /\ op' = "retrieveCriticalMemories"
    /\ UNCHANGED <<handlers, layer, calls, history, engine, service, manager>>

CallRetrieveByTimeRange ==
    /\ Idle
    /\ service.constructed
    /\ \E knowledgeGraph \in Graphs, timeRange \in TimeRanges,
          entityNames \in TargetLists :
          /\ args' = [knowledgeGraph |-> knowledgeGraph,
                      timeRange |-> timeRange, entityNames |-> entityNames]
          /\ \E r \in retrieveByTimeRange(knowledgeGraph, timeRange,
                                          entityNames) :
                /\ outcome' = r.outcome
                /\ result' = r.result
    /\ op' = "retrieveByTimeRange"
    /\ UNCHANGED <<handlers, layer, calls, history, engine, service, manager>>

RetrievalNext ==
    \/ ConstructService
    \/ CallRetrieveRelevantMemories
    \/ CallRetrieveByCategory
    \/ CallRetrieveCriticalMemories
    \/ CallRetrieveByTimeRange
    \/ Return

RetrievalSpec == Init /\ [][RetrievalNext]_vars

-----------------------------------------------------------------------------
(* Properties of retrieval *)

RetrievalOps ==
    {"retrieveRelevantMemories", "retrieveByCategory",
     "retrieveCriticalMemories", "retrieveByTimeRange"}

\* the options in effect for the call in progress
OptionsInEffect == args.options @@ service.options

\* at most limit elements (none when the limit is negative)
AtMost(list, limit) == Len(list) <= (IF limit < 0 THEN 0 ELSE limit)

NonIncreasingScores(list) ==
    \A i \in 1..(Len(list) - 1) : FracGeq(list[i].score, list[i + 1].score)

\* C5: every call of retrieveRelevantMemories returns at most maxEntities
\* entities and at most maxRelations relations, by the limits in effect for
\* the call, and both lists are in the order of non-increasing score.
C5_LimitsAndDescendingScores ==
    (op = "retrieveRelevantMemories" /\ outcome = "returned")
        => /\ AtMost(result.entities, OptionsInEffect.maxEntities)
           /\ AtMost(result.relations, OptionsInEffect.maxRelations)
           /\ NonIncreasingScores(result.entities)
           /\ NonIncreasingScores(result.relations)

\* the names the call in progress asks getEntity for
RequestedNames ==
    IF op = "retrieveRelevantMemories" THEN args.targetEntities
    ELSE args.entityNames

\* the first graph call of the operation in progress is a getEntity that fails
GetEntityFails ==
    /\ op \in RetrievalOps
    /\ args.knowledgeGraph.fail.method = "getEntity"
    /\ args.knowledgeGraph.fail.kind \in {"throws", "rejects"}
    /\ Len(RequestedNames) > 0
    /\ (op = "retrieveRelevantMemories" => args.context # undefinedStr)

\* C6: no call of a compression or retrieval operation propagates an
\* exception to its caller; when a graph call fails, retrieval returns a
\* result with empty lists and an error field.
C6_NoExceptionPropagates ==
    /\ outcome # "threw"
    /\ (GetEntityFails /\ outcome = "returned")
          => /\ "error" \in DOMAIN result
             /\ result.entities = <<>>

-----------------------------------------------------------------------------
(* CompressionEngine._compressCluster on its own *)

\* the confidences of the observations of a cluster: absent, the five levels
\* of the scale, and a value above the scale
ClusterConfidences == {NoConfidence, 1, 2, 3, 4, 5, 9}

ClusterObservations ==
    {Obs(cMemory, timestamp, confidence, "goal", FALSE) :
        timestamp \in {Now, Now - 1}, confidence \in ClusterConfidences}

\* the clusters of at most MaxPending observations
Clusters ==
    UNION {[1..n -> ClusterObservations] : n \in 1..MaxPending}

CallCompressCluster ==
    /\ Idle
    /\ \E cluster \in Clusters :
          /\ args' = [cluster |-> cluster, entityName |-> "e1",
                      category |-> "goal"]
          /\ \E r \in _compressCluster(
                          [k \in DOMAIN cluster |-> [ref |-> k] @@ cluster[k]],
                          "e1", "goal") :
                result' = r
    /\ op' = "_compressCluster"
    /\ outcome' = "returned"
    /\ UNCHANGED <<handlers, layer, calls, history, engine, service, manager>>

ClusterNext ==
    \/ CallCompressCluster
    \/ Return

ClusterSpec == Init /\ [][ClusterNext]_vars

\* the sum of the confidences of the cluster of the call, an absent one
\* counted as 3
RECURSIVE MemberConfidenceSum(_)
MemberConfidenceSum(cluster) ==
    IF cluster = <<>> THEN 0
    ELSE (IF Head(cluster).confidence = NoConfidence THEN 3
          ELSE Head(cluster).confidence)
         + MemberConfidenceSum(Tail(cluster))

\* C11: the confidence c of a compressed observation is the mean of its
\* members' confidences (an absent one counted as 3) rounded to the nearest
\* integer, halves up: c - 1/2 <= mean < c + 1/2.
C11_ConfidenceIsRoundedMean ==
    (op = "_compressCluster" /\ outcome = "returned" /\ result # <<>>)
        => LET n == Len(args.cluster)
               sum == MemberConfidenceSum(args.cluster)
               c == result[1].confidence
           IN  /\ (2 * c - 1) * n <= 2 * sum
               /\ 2 * sum < (2 * c + 1) * n

\* C11 witness: members with confidences 3 and 4 were compressed into an
\* observation of confidence 4
C11_Witness ==
    /\ op = "_compressCluster"
    /\ outcome = "returned"
    /\ Len(args.cluster) = 2
    /\ {args.cluster[k].confidence : k \in 1..2} = {3, 4}
    /\ result # <<>>
    /\ result[1].confidence = 4

-----------------------------------------------------------------------------
(* MemoryManager (unnamed/part_002) with the KnowledgeGraphHandler and the
   TokenAnalyzer it owns.  The memory server behind the handler is the list
   of entities it holds (store); a call of the server either works or is
   rejected, as the environment decides (mcpOk). *)

\* x || fallback for a confidence: an absent value and 0 are falsy
ConfidenceOr(confidence, fallback) ==
    IF confidence = NoConfidence \/ confidence = 0 THEN fallback
    ELSE confidence

\* x || fallback for a string: an absent value and "" are falsy
StringOr(text, fallback) == IF text = "" THEN fallback ELSE text

HasEntity(entities, name) == \E k \in DOMAIN entities : entities[k].name = name

\* Map.set(entity.name, entity): a known key keeps its place
SetEntity(entities, entity) ==
    IF HasEntity(entities, entity.name)
    THEN [k \in DOMAIN entities |->
            IF entities[k].name = entity.name THEN entity ELSE entities[k]]
    ELSE Append(entities, entity)

\* the entity of that name gets one more observation
PushObservation(entities, name, observation) ==
    [k \in DOMAIN entities |->
        IF entities[k].name = name
        THEN [entities[k] EXCEPT !.observations = Append(@, observation)]
        ELSE entities[k]]

\* create_entities of the memory server: a name it holds already is ignored
create_entities(store, entity) ==
    IF HasEntity(store, entity.name) THEN store ELSE Append(store, entity)

\* KnowledgeGraphHandler.createEntity: validation, server call, cache update;
\* every failure is swallowed into { success: false }
createEntity(m, entity, mcpOk) ==
    IF entity.name = "" \/ entity.entityType = "" \/ ~mcpOk
    THEN [manager |-> m, success |-> FALSE]
    ELSE [manager |-> [m EXCEPT !.store = create_entities(@, entity),
                                !.entityCache = SetEntity(@, entity)],
          success |-> TRUE]

\* KnowledgeGraphHandler.entityExists: the cache first, then search_nodes,
\* whose hits are cached; a rejected search counts as "does not exist"
entityExists(m, entityName, mcpOk) ==
    IF HasEntity(m.entityCache, entityName)
    THEN [manager |-> m, exists |-> TRUE]
    ELSE IF ~mcpOk
    THEN [manager |-> m, exists |-> FALSE]
    ELSE LET hits == SelectSeq(m.store, LAMBDA e : e.name = entityName)
         IN  [manager |->
                [m EXCEPT !.entityCache =
                    IF hits = <<>> THEN @ ELSE SetEntity(@, hits[1])],
              exists |-> hits # <<>>]

\* KnowledgeGraphHandler.addObservation: validation, server call (which
\* rejects an unknown entity), cache update for a cached entity
addObservation(m, entityName, observation, mcpOk) ==
    IF observation.content = <<>> \/ ~mcpOk \/ ~HasEntity(m.store, entityName)
    THEN [manager |-> m, success |-> FALSE]
    ELSE [manager |->
            [m EXCEPT !.store = PushObservation(@, entityName, observation),
                      !.entityCache =
                          PushObservation(@, entityName, observation)],
          success |-> TRUE]

\* TokenAnalyzer.startTracking
startTracking(m) == [m EXCEPT !.tracking = TRUE, !.operations = 0]

\* TokenAnalyzer.trackOperation: starts tracking when nothing is tracked
trackOperation(m) ==
    LET started == IF m.tracking THEN m ELSE startTracking(m)
    IN  [started EXCEPT !.operations = @ + 1]

RECURSIVE CreateAll(_, _, _)
CreateAll(m, entities, mcpOk) ==
    IF entities = <<>> THEN m
    ELSE CreateAll(createEntity(m, Head(entities), mcpOk).manager,
                   Tail(entities), mcpOk)

\* loadMemoryIntoKnowledgeGraph: createEntity for every entity of the file
\* (a file without the sections has none)
loadMemoryIntoKnowledgeGraph(m, memoryData, mcpOk) ==
    CreateAll(m, memoryData.entities, mcpOk)

Success(message) == [success |-> TRUE, message |-> message]
Failure(message) == [success |-> FALSE, message |-> message]

\* startSession: refused while a session is active; before initialize() the
\* token analyzer is null and the TypeError is caught; an unreadable memory
\* file is caught after tracking was started
startSession(m, fileOk, mcpOk) ==
    IF m.sessionActive
    THEN [manager |-> m, result |-> Failure("Session already active")]
    ELSE IF ~m.initialized
    THEN [manager |-> m, result |-> Failure("Failed to start memory session")]
    ELSE IF ~fileOk
    THEN [manager |-> startTracking(m),
          result |-> Failure("Failed to start memory session")]
    ELSE [manager |->
            [loadMemoryIntoKnowledgeGraph(startTracking(m), m.file, mcpOk)
                EXCEPT !.sessionActive = TRUE],
          result |-> Success("Memory session started")]

\* the observation recordObservation builds from its arguments
observationData(observation, options) ==
    Obs(observation, Now, ConfidenceOr(options.confidence, 3),
        StringOr(options.category, "behavior"), options.is_critical)

\* recordObservation: starts a session when none is active (whatever that
\* gives), queues the observation, then stores it in the graph; the results
\* of createEntity and addObservation are not looked at
recordObservation(m, entityName, entityType, observation, options, fileOk, mcpOk) ==
    LET started == IF m.sessionActive THEN m
                   ELSE startSession(m, fileOk, mcpOk).manager
        data    == observationData(observation, options)
        queued  == [started EXCEPT !.pendingObservations =
                       Append(@, [entityName |-> entityName,
                                  entityType |-> entityType,
                                  observation |-> data])]
        found   == entityExists(queued, entityName, mcpOk)
        stored  == IF found.exists
                   THEN addObservation(found.manager, entityName, data, mcpOk)
                   ELSE createEntity(found.manager,
                                     Entity(entityName, entityType, <<data>>),
                                     mcpOk)
    IN  IF ~started.initialized
        THEN [manager |-> queued,
              result |-> Failure("Failed to record observation")]
        ELSE [manager |-> trackOperation(stored.manager),
              result |-> Success("Observation recorded")]

(* Inputs of the manager *)

\* the entities of the memory file when the manager is constructed
MemoryFiles ==
    { MemoryFile(<<>>, <<>>, TRUE),
      MemoryFile(<<Entity("e1", "person",
                          <<Obs(cStorage, Now - 1, 4, "goal", FALSE)>>)>>,
                 <<>>, TRUE) }

\* compressionThreshold of the configuration: the default and a small one
ManagerThresholds == {10, 2}

\* confidences a caller passes: none, 0, one of the scale, two beyond it
PassedConfidences == {NoConfidence, 0, 1, 9, -2}

RecordOptions ==
    {[confidence |-> c, category |-> "", is_critical |-> FALSE] :
        c \in PassedConfidences}

\* the calls of recordObservation: every option for one entity, and a
\* critical observation with a category for another
RecordCalls ==
    {[entityName |-> "e1", options |-> options] : options \in RecordOptions}
    \cup {[entityName |-> "e2",
           options |-> [confidence |-> 5, category |-> "goal",
                        is_critical |-> TRUE]]}

(* Actions of the manager *)

\* new MemoryManager(config), with the memory file the environment holds
ConstructManager ==
    /\ Idle
    /\ ~manager.constructed
    /\ \E threshold \in ManagerThresholds, file \in MemoryFiles :
         manager' = [NoManager EXCEPT !.constructed = TRUE,
                                      !.compressionThreshold = threshold,
                                      !.file = file]
    /\ UNCHANGED <<handlers, layer, calls, history, engine, service, op, args, outcome, result>>

\* initialize(): creates the five components
CallInitialize ==
    /\ Idle
    /\ manager.constructed
    /\ manager' = [manager EXCEPT !.initialized = TRUE,
                                  !.entityCache = <<>>,
                                  !.tracking = FALSE, !.operations = 0]
    /\ op' = "initialize"
    /\ args' = <<>>
    /\ outcome' = "returned"
    /\ result' = TRUE
    /\ UNCHANGED <<handlers, layer, calls, history, engine, service>>

CallStartSession ==
    /\ Idle
    /\ manager.constructed
    /\ \E fileOk \in BOOLEAN, mcpOk \in BOOLEAN :
         LET r == startSession(manager, fileOk, mcpOk)
         IN  /\ manager' = r.manager
             /\ result' = r.result
    /\ op' = "startSession"
    /\ args' = <<>>
    /\ outcome' = "returned"
    /\ UNCHANGED <<handlers, layer, calls, history, engine, service>>

CallRecordObservation ==
    /\ Idle
    /\ manager.constructed
    /\ Len(manager.pendingObservations) < MaxPending
    /\ \E call \in RecordCalls, fileOk \in BOOLEAN, mcpOk \in BOOLEAN :
         LET r == recordObservation(manager, call.entityName, "person",
                                    cMemory, call.options, fileOk, mcpOk)
         IN  /\ manager' = r.manager
             /\ result' = r.result
             /\ args' = call
    /\ op' = "recordObservation"
    /\ outcome' = "returned"
    /\ UNCHANGED <<handlers, layer, calls, history, engine, service>>

ManagerNext ==
    \/ ConstructManager
    \/ CallInitialize
    \/ CallStartSession
    \/ CallRecordObservation
    \/ Return

ManagerSpec == Init /\ [][ManagerNext]_vars

(* C12 *)

ConfidenceInRange(observation) == observation.confidence \in 1..5

AllObservationsInRange(entities) ==
    \A k \in DOMAIN entities :
        \A j \in DOMAIN entities[k].observations :
            ConfidenceInRange(entities[k].observations[j])

\* C12: whatever confidence a caller passes to recordObservation, every
\* observation the manager holds afterwards (queued for compression, cached
\* by the handler, stored by the memory server) has a confidence in 1..5
C12_StoredConfidenceClamped ==
    /\ \A k \in DOMAIN manager.pendingObservations :
           ConfidenceInRange(manager.pendingObservations[k].observation)
    /\ AllObservationsInRange(manager.entityCache)
    /\ AllObservationsInRange(manager.store)

-----------------------------------------------------------------------------
(* The recency score on its own: _calculateRecencyScore of an entity and the
   recency term of _filterAndSortObservations, for every age of the (most
   recent) observation up to MaxDays and three windows *)

\* oldest observation, in days
MaxDays == 35

RecencyWindows == {1, 7, 30}

\* an entity whose most recent observation is daysSince days old; an older
\* one and one without a timestamp come before it
AgedEntity(daysSince) ==
    Entity(nAlice, <<"p","e","r","s","o","n">>,
           << Obs(cStorage, Now - daysSince - 5, 4, "goal", FALSE),
              Obs(cStorage, NoTimestamp, 4, "goal", FALSE),
              Obs(cMemory, Now - daysSince, 4, "goal", FALSE) >>)

CallCalculateRecencyScore ==
    /\ Idle
    /\ \E daysSince \in 0..MaxDays, recencyWindow \in RecencyWindows :
         /\ args' = [daysSince |-> daysSince, recencyWindow |-> recencyWindow]
         /\ result' = _calculateRecencyScore(
                          [options |-> [recencyWindow |-> recencyWindow]],
                          AgedEntity(daysSince))
    /\ op' = "_calculateRecencyScore"
    /\ outcome' = "returned"
    /\ UNCHANGED <<handlers, layer, calls, history, engine, service, manager>>

CallObservationRecency ==
    /\ Idle
    /\ \E daysSince \in 0..MaxDays, recencyWindow \in RecencyWindows :
         /\ args' = [daysSince |-> daysSince, recencyWindow |-> recencyWindow]
         /\ result' = ObservationRecency(
                          Obs(cMemory, Now - daysSince, 4, "goal", FALSE),
                          recencyWindow)
    /\ op' = "recencyScore"
    /\ outcome' = "returned"
    /\ UNCHANGED <<handlers, layer, calls, history, engine, service, manager>>

RecencyNext ==
    \/ CallCalculateRecencyScore
    \/ CallObservationRecency
    \/ Return

RecencySpec == Init /\ [][RecencyNext]_vars

(* C13 *)

RecencyOps == {"_calculateRecencyScore", "recencyScore"}

\* x < y for two numbers
FracLess(x, y) == ~IsNaN(x) /\ ~IsNaN(y) /\ x.num * y.den < y.num * x.den

\* C13: for a fixed recencyWindow the recency score of an entity and of an
\* observation is exactly 0 once daysSince >= recencyWindow, and inside the
\* window every later day scores strictly less than the day of the call
C13_RecencyStrictlyDecreasesToZero ==
    (op \in RecencyOps /\ outcome = "returned") =>
        /\ args.daysSince >= args.recencyWindow => result = Frac(0, 1)
        /\ \A later \in (args.daysSince + 1)..args.recencyWindow :
               FracLess(RecencyOf(later, args.recencyWindow), result)
        /\ \A earlier \in 0..(args.daysSince - 1) :
               earlier < args.recencyWindow =>
                   FracLess(result, RecencyOf(earlier, args.recencyWindow))

\* inside a window of 7 days an observation of 3 days scores 4/7, at the
\* edge of the window it scores 0
C13_Witness ==
    /\ op = "_calculateRecencyScore"
    /\ args = [daysSince |-> 3, recencyWindow |-> 7]
    /\ result = Frac(4, 7)

(* C14 *)

\* the members of a list that satisfy is_critical, in the list's order
RECURSIVE CriticalOnly(_)
CriticalOnly(observations) ==
    IF observations = <<>> THEN <<>>
    ELSE (IF Head(observations).is_critical THEN <<Head(observations)>>
          ELSE <<>>) \o CriticalOnly(Tail(observations))

RECURSIVE CriticalRelationsOnly(_)
CriticalRelationsOnly(relations) ==
    IF relations = <<>> THEN <<>>
    ELSE (IF Head(relations).attributes.present
             /\ Head(relations).attributes.is_critical
          THEN <<Head(relations)>> ELSE <<>>)
         \o CriticalRelationsOnly(Tail(relations))

\* C14: with a working graph retrieveCriticalMemories returns, for each
\* entity considered that has a critical observation, exactly its critical
\* observations in their original order, and exactly the graph's critical
\* relations; nothing is ranked, filtered by confidence or truncated
C14_ExactlyCriticalUnranked ==
    (/\ op = "retrieveCriticalMemories"
     /\ outcome = "returned"
     /\ args.knowledgeGraph.fail = NoFailure) =>
        LET considered ==
                EntitiesFor(args.knowledgeGraph, args.entityNames).entities
            withCritical ==
                SelectSeq(considered,
                          LAMBDA e : CriticalOnly(e.observations) # <<>>)
        IN  /\ "error" \notin DOMAIN result
            /\ Len(result.entities) = Len(withCritical)
            /\ \A k \in DOMAIN result.entities :
                   /\ result.entities[k].name = withCritical[k].name
                   /\ result.entities[k].observations =
                          CriticalOnly(withCritical[k].observations)
            /\ result.relations =
                   CriticalRelationsOnly(args.knowledgeGraph.relations)

\* all entities of a graph holding Bob and Alice: Bob has no critical
\* observation, Alice's only critical one has confidence 2 and comes back
\* alone, with the one critical relation of three
C14_Witness ==
    /\ op = "retrieveCriticalMemories"
    /\ outcome = "returned"
    /\ args.knowledgeGraph.fail = NoFailure
    /\ args.entityNames = <<>>
    /\ Len(args.knowledgeGraph.entities) = 2
    /\ Len(args.knowledgeGraph.relations) = 3
    /\ Len(result.entities) = 1
    /\ result.entities[1].name = nAlice
    /\ result.entities[1].observations =
           <<Obs(cStorage, Now - 1, 2, "goal", TRUE)>>
    /\ result.relations = <<rKnows>>

(* C15 *)

\* the first and the last day of a time range whose bounds can be parsed:
\* the epoch and the time of the call when a bound is not given
RangeStart(timeRange) ==
    IF timeRange.startDate = NoTimestamp THEN 0 ELSE timeRange.startDate

RangeEnd(timeRange) ==
    IF timeRange.endDate = NoTimestamp THEN Now ELSE timeRange.endDate

\* a time that is given, can be parsed, and lies in the range, bounds included
Within(t, timeRange) ==
    /\ t # NoTimestamp
    /\ t # InvalidTime
    /\ RangeStart(timeRange) <= t
    /\ t <= RangeEnd(timeRange)

\* C15: with a working graph and a range whose bounds can be parsed,
\* retrieveByTimeRange returns, for each entity considered that has one,
\* exactly its observations with startDate <= timestamp <= endDate in their
\* original order, and exactly the relations with attributes.time in the
\* range; nothing is ranked or truncated
C15_ExactlyWithinRange ==
    (/\ op = "retrieveByTimeRange"
     /\ outcome = "returned"
     /\ args.knowledgeGraph.fail = NoFailure
     /\ InvalidTime \notin {args.timeRange.startDate, args.timeRange.endDate})
    =>
        LET considered ==
                EntitiesFor(args.knowledgeGraph, args.entityNames).entities
            inRange(e) ==
                SelectSeq(e.observations,
                          LAMBDA obs : Within(obs.timestamp, args.timeRange))
            withSome ==
                SelectSeq(considered, LAMBDA e : inRange(e) # <<>>)
        IN  /\ "error" \notin DOMAIN result
            /\ Len(result.entities) = Len(withSome)
            /\ \A k \in DOMAIN result.entities :
                   /\ result.entities[k].name = withSome[k].name
                   /\ result.entities[k].observations = inRange(withSome[k])
            /\ result.relations =
                   SelectSeq(args.knowledgeGraph.relations,
                       LAMBDA relation :
                           /\ relation.attributes.present
                           /\ Within(relation.attributes.time,
                                     args.timeRange))

\* the range from three days to one day ago over Bob and Alice: Bob's
\* observation on the first day of the range and Alice's on the last day are
\* returned, Alice's of today and of 40 days ago are not; the relation dated
\* on the first day is returned, the undated and the unparseable one are not
C15_Witness ==
    /\ op = "retrieveByTimeRange"
    /\ outcome = "returned"
    /\ args.knowledgeGraph.fail = NoFailure
    /\ args.timeRange = [startDate |-> Now - 3, endDate |-> Now - 1]
    /\ args.entityNames = <<>>
    /\ Len(args.knowledgeGraph.relations) = 3
    /\ Len(result.entities) = 2
    /\ result.entities[1].name = nBob
    /\ result.entities[1].observations =
           <<Obs(cStorage, Now - 3, 4, "preference", FALSE)>>
    /\ result.entities[2].name = nAlice
    /\ result.entities[2].observations =
           <<Obs(cStorage, Now - 1, 2, "goal", TRUE)>>
    /\ result.relations = <<rKnows>>

(* C16 *)

\* the score of an observation from its recency, its confidence and the
\* critical bonus, by the options in effect; no relevance term
ScoreWithoutRelevance(obs, options) ==
    FracAdd(FracAdd(FracMul(options.weights.recency,
                            ObservationRecency(obs, options.recencyWindow)),
                    FracMul(options.weights.confidence,
                            Quotient(ConfidenceOrZero(obs), 5))),
            IF obs.is_critical THEN Frac(1, 2) ELSE Frac(0, 1))

\* C16: retrieveByCategory returns only observations of the requested
\* category, each with the score made of recency, confidence and critical
\* bonus only, and every entity's observations in the order of
\* non-increasing score
C16_CategoryOnlyRankedWithoutRelevance ==
    (/\ op = "retrieveByCategory"
     /\ outcome = "returned"
     /\ "error" \notin DOMAIN result) =>
        \A k \in DOMAIN result.entities :
            LET observations == result.entities[k].observations
            IN  /\ \A j \in DOMAIN observations :
                       /\ observations[j].category = args.category
                       /\ ~IsNaN(observations[j].score) =>
                              observations[j].score =
                                  ScoreWithoutRelevance(observations[j],
                                                        OptionsInEffect)
                /\ NonIncreasingScores(observations)

(* C17 *)

\* x > y for two numbers
FracGreater(x, y) == ~IsNaN(x) /\ ~IsNaN(y) /\ x.num * y.den > y.num * x.den

\* the keywords the call in progress hands to _filterAndSortObservations
KeywordsOfCall ==
    IF op = "retrieveRelevantMemories" THEN result.context.keywords ELSE <<>>

\* the observations the call in progress hands to _filterAndSortObservations
\* for the entity of that name
ObservationsOfCall(name) ==
    LET found == getEntity(args.knowledgeGraph, name)
        all   == IF found = <<>> THEN <<>> ELSE found[1].observations
    IN  IF op = "retrieveByCategory"
        THEN SelectSeq(all, LAMBDA obs : obs.category = args.category)
        ELSE all

\* w.relevance * relevance + w.recency * recency + w.confidence *
\* (confidence / 5) + 0.5 if critical
WeightedObservationScore(obs, keywords, options) ==
    LET matching == {k \in DOMAIN keywords :
                        /\ obs.content # undefinedStr
                        /\ Includes(toLowerCase(obs.content),
                                    toLowerCase(keywords[k]))}
        relevance == Quotient(Cardinality(matching),
                              IF keywords = <<>> THEN 1 ELSE Len(keywords))
    IN  FracAdd(FracMul(options.weights.relevance, relevance),
                ScoreWithoutRelevance(obs, options))

\* C17: the observations returned for an entity hold none below
\* minConfidence, carry the weighted score, are in the order of
\* non-increasing score, are at most maxObservationsPerEntity, and leave out
\* no eligible observation that scores strictly higher than a returned one
C17_ObservationsFilteredRankedTruncated ==
    (/\ op \in {"retrieveRelevantMemories", "retrieveByCategory"}
     /\ outcome = "returned"
     /\ "error" \notin DOMAIN result) =>
        \A k \in DOMAIN result.entities :
            LET returned == result.entities[k].observations
                given    == ObservationsOfCall(result.entities[k].name)
                eligible == SelectSeq(given,
                                LAMBDA obs : ConfidenceOrZero(obs) >=
                                             OptionsInEffect.minConfidence)
            IN  /\ \A j \in DOMAIN returned :
                       /\ ConfidenceOrZero(returned[j]) >=
                              OptionsInEffect.minConfidence
                       /\ returned[j].score =
                              WeightedObservationScore(returned[j],
                                  KeywordsOfCall, OptionsInEffect)
                /\ NonIncreasingScores(returned)
                /\ AtMost(returned, OptionsInEffect.maxObservationsPerEntity)
                /\ \A i \in DOMAIN eligible, j \in DOMAIN returned :
                       (\A r \in DOMAIN returned :
                            [score |-> returned[r].score] @@ eligible[i]
                                # returned[r])
                       => ~FracGreater(
                              WeightedObservationScore(eligible[i],
                                  KeywordsOfCall, OptionsInEffect),
                              returned[j].score)

(* C18 *)

\* C18: every relation retrieveRelevantMemories returns has the score
\* base + criticalBonus + recencyBoost, with base 1 when both ends are among
\* the returned entities and 1/2 otherwise, criticalBonus 3/10 for a critical
\* relation, and 0 <= recencyBoost <= 2/10; so the score lies in [1/2, 3/2]
C18_RelationScoreBounded ==
    (/\ op = "retrieveRelevantMemories"
     /\ outcome = "returned"
     /\ "error" \notin DOMAIN result) =>
        LET names == {result.entities[k].name : k \in DOMAIN result.entities}
        IN  \A k \in DOMAIN result.relations :
                LET relation == result.relations[k]
                    base == IF relation.from \in names /\ relation.to \in names
                            THEN Frac(1, 1) ELSE Frac(1, 2)
                    criticalBonus ==
                        IF relation.attributes.present
                           /\ relation.attributes.is_critical
                        THEN Frac(3, 10) ELSE Frac(0, 1)
                    recencyBoost ==
                        FracAdd(relation.score,
                                FracMul(Frac(-1, 1),
                                        FracAdd(base, criticalBonus)))
                IN  /\ FracLeq(Frac(0, 1), recencyBoost)
                    /\ FracLeq(recencyBoost, Frac(2, 10))
                    /\ FracLeq(Frac(1, 2), relation.score)
                    /\ FracLeq(relation.score, Frac(3, 2))

(* C19 *)

\* a service whose own options are those in effect for the call in progress
ServiceInEffect == [constructed |-> TRUE, options |-> OptionsInEffect]

\* C19: in retrieveRelevantMemories the score of every returned entity is
\* the weighted sum of its three scores by the weights in effect for the
\* call, its recency score uses the recencyWindow in effect for the call,
\* and so does the score of every returned relation
C19_CallOptionsGovernScoring ==
    (/\ op = "retrieveRelevantMemories"
     /\ outcome = "returned"
     /\ "error" \notin DOMAIN result) =>
        /\ \A k \in DOMAIN result.entities :
               LET entity == result.entities[k]
                   given  == getEntity(args.knowledgeGraph, entity.name)[1]
               IN  /\ entity.score =
                          WeightedSum(OptionsInEffect.weights,
                                      entity.scores.relevance,
                                      entity.scores.recency,
                                      entity.scores.confidence)
                   /\ entity.scores.recency =
                          _calculateRecencyScore(ServiceInEffect, given)
        /\ \A k \in DOMAIN result.relations :
               LET relation == result.relations[k]
                   given == Relation(relation.from, relation.to,
                                     relation.relationType,
                                     relation.attributes)
               IN  relation.score =
                       _scoreRelations(ServiceInEffect, <<given>>,
                                       result.entities)[1].score

-----------------------------------------------------------------------------
(* _extractKeywords on its own: contexts of up to MaxWords words of a small
   vocabulary, and one context with eleven different keywords *)

\* longest context, in words
MaxWords == 3

\* two ordinary words (one capitalised, with punctuation), two numerals, a
\* stop word and a short word
Vocabulary ==
    { <<"m","e","m","o","r","y">>, <<"Z","e","b","r","a","!">>, <<"2","0","2","4">>, <<"1","9","9","9">>, <<"w","h","i","c","h">>, <<"c","a","t">> }

RECURSIVE JoinWords(_)
JoinWords(words) ==
    IF words = <<>> THEN <<>>
    ELSE IF Len(words) = 1 THEN words[1]
    ELSE words[1] \o <<" ">> \o JoinWords(Tail(words))

\* eleven different keywords, the last of them twice
cxEleven ==
    <<"a","l","p","h","a"," ","b","r","a","v","o"," ","c","h","a","r","l","i","e"," ","d","e","l","t","a"," ","e","c","h","o","e","s"," ","f","o","x","t","r","o","t"," ","g","o","l","f"," ","h","o","t","e","l"," ","i","n","d","i","a"," ","j","u","l","i","e","t"," ","k","i","l","o"," ","k","i","l","o">>

KeywordContexts ==
    {JoinWords(words) :
        words \in UNION {[1..n -> Vocabulary] : n \in 1..MaxWords}}
    \cup {cxEleven}

CallExtractKeywords ==
    /\ Idle
    /\ \E context \in KeywordContexts :
         /\ args' = [context |-> context]
         /\ result' = _extractKeywords(context)
    /\ op' = "_extractKeywords"
    /\ outcome' = "returned"
    /\ UNCHANGED <<handlers, layer, calls, history, engine, service, manager>>

KeywordNext == CallExtractKeywords \/ Return

KeywordSpec == Init /\ [][KeywordNext]_vars

(* C20 *)

\* the place of a token's first occurrence among the tokens
FirstOccurrence(tokens, word) ==
    CHOOSE k \in DOMAIN tokens :
        /\ tokens[k] = word
        /\ \A j \in 1..(k - 1) : tokens[j] # word

\* C20: _extractKeywords returns at most 10 different tokens, each longer
\* than 3 characters and no stop word, by non-increasing frequency in the
\* context, equally frequent ones by their first occurrence; no token left
\* out is more frequent than a returned one
C20_TopKeywordsByFrequencyThenFirstSeen ==
    (op = "_extractKeywords" /\ outcome = "returned") =>
        LET tokens == KeywordTokens(args.context)
            words  == {tokens[k] : k \in DOMAIN tokens}
        IN  /\ Len(result) <= 10
            /\ \A i, j \in DOMAIN result : i # j => result[i] # result[j]
            /\ \A i \in DOMAIN result :
                   /\ result[i] \in words
                   /\ Len(result[i]) > 3
                   /\ ~_isStopWord(result[i])
            /\ \A i, j \in DOMAIN result :
                   i < j =>
                       \/ Count(tokens, result[i]) > Count(tokens, result[j])
                       \/ /\ Count(tokens, result[i]) = Count(tokens, result[j])
                          /\ FirstOccurrence(tokens, result[i])
                                 < FirstOccurrence(tokens, result[j])
            /\ \A word \in words :
                   (\A i \in DOMAIN result : result[i] # word) =>
                       \A i \in DOMAIN result :
                           Count(tokens, word) <= Count(tokens, result[i])
            /\ Len(result) = (IF Cardinality(words) < 10
                              THEN Cardinality(words) ELSE 10)

-----------------------------------------------------------------------------
(* C21 *)

\* the windows _groupByTimeWindow makes of the observations of the call
WindowsOfCall ==
    _groupByTimeWindow(args.pendingObservations, args.timeWindowDays, 1, <<>>)

\* C21: every compressed observation temporalCompression returns carries the
\* window key of each observation it was built from (so its sources are all
\* of one window); every observation with a timestamp is in exactly one
\* window, the one of its key, and an observation without one is in none
C21_TimeWindowIsBucketOfSources ==
    (op = "temporalCompression" /\ outcome = "returned") =>
        LET windows == WindowsOfCall
            places  == {<<w, r>> : w \in DOMAIN windows,
                                   r \in 1..Len(args.pendingObservations)}
            held    == {p \in places : p[2] \in DOMAIN windows[p[1]].refs}
        IN  /\ \A k \in DOMAIN result :
                   \A m \in DOMAIN result[k].members :
                       /\ Source(result[k].members[m]).timestamp # NoTimestamp
                       /\ result[k].time_window =
                              WindowKey(Source(result[k].members[m]).timestamp,
                                        args.timeWindowDays)
            /\ \A p \in held :
                   LET i == windows[p[1]].refs[p[2]]
                   IN  /\ Source(i).timestamp # NoTimestamp
                       /\ windows[p[1]].key =
                              WindowKey(Source(i).timestamp,
                                        args.timeWindowDays)
            /\ \A i \in DOMAIN args.pendingObservations :
                   Cardinality({p \in held : windows[p[1]].refs[p[2]] = i})
                       = (IF Source(i).timestamp = NoTimestamp THEN 0 ELSE 1)

\* windows of 7 days: two similar observations of this week are compressed
\* into one that carries their window, next to an observation of last week
C21_Witness ==
    /\ op = "temporalCompression"
    /\ outcome = "returned"
    /\ args.timeWindowDays = 7
    /\ Len(args.pendingObservations) = 3
    /\ Source(3).timestamp = Now - 8
    /\ Len(WindowsOfCall) = 2
    /\ Len(result) = 1
    /\ Range(result[1].members) = {1, 2}
    /\ result[1].time_window = WindowKey(Now, 7)
    /\ WindowKey(Now - 8, 7) # WindowKey(Now, 7)

-----------------------------------------------------------------------------
(* MemoryManager.endSession (unnamed/part_002), callers one after another *)

RECURSIVE SetAll(_, _)
SetAll(cache, entities) ==
    IF entities = <<>> THEN cache
    ELSE SetAll(SetEntity(cache, Head(entities)), Tail(entities))

\* KnowledgeGraphHandler.exportGraph: the graph of the memory server, whose
\* entities are cached; a rejected read gives the empty graph, never a throw
exportGraph(m, mcpOk) ==
    IF ~mcpOk THEN [manager |-> m, graph |-> [entities |-> <<>>]]
    ELSE [manager |-> [m EXCEPT !.entityCache = SetAll(@, m.store)],
          graph |-> [entities |-> m.store]]

\* TokenAnalyzer.finalizeTracking: the operations are kept
finalizeTracking(m) == [m EXCEPT !.tracking = FALSE]

\* the engine initialize() creates: the configured threshold, default options
EngineOf(m) ==
    [constructed |-> TRUE, compressionThreshold |-> m.compressionThreshold,
     options |-> EngineOptions(Frac(6, 10), TRUE)]

\* prepareMemoryUpdate, for a file that has the sections it writes to
prepareMemoryUpdate(m, currentMemory, graphData, compressedObservations) ==
    [currentMemory EXCEPT
        !.entities = graphData.entities,
        !.interaction_count = m.operations,
        !.compressed_observations = compressedObservations \o @]

\* one run of the try block of endSession: the manager as it stands, the
\* values the statements have bound so far, the statements completed (done)
\* and the message of what was thrown ("" while nothing was)
NewRun(m) ==
    [manager |-> m, currentMemory |-> MemoryFile(<<>>, <<>>, FALSE),
     graphData |-> [entities |-> <<>>], handed |-> <<>>, compressed |-> <<>>,
     updatedMemory |-> MemoryFile(<<>>, <<>>, FALSE), done |-> <<>>,
     error |-> ""]

\* a wrong catch block that C24 must tell from Thrown: it also closes the
\* session
ThrownAndClosed(run, message) ==
    [run EXCEPT !.error = message,
                !.manager = [@ EXCEPT !.sessionActive = FALSE,
                                      !.pendingObservations = <<>>]]

\* a statement of the try block throws: control goes to the catch block,
\* which touches nothing
Thrown(run, message) == [run EXCEPT !.error = message]

Completed(run, name) == [run EXCEPT !.done = Append(@, name)]

\* a wrong order that C25 must tell from EndStages: the session is closed
\* before the file is written
EndStagesCloseFirst ==
    <<"readMemoryFile", "exportGraph", "compressObservations",
      "prepareMemoryUpdate", "close", "writeMemoryFile", "finalizeTracking">>

\* the statements of the try block of endSession, in the order of the code;
\* "close" is the pair sessionActive = false; pendingObservations = []
EndStages ==
    <<"readMemoryFile", "exportGraph", "compressObservations",
      "prepareMemoryUpdate", "writeMemoryFile", "finalizeTracking", "close">>

\* the runs after one statement; env is what the file system and the memory
\* server do during the call
Stage(name, run, env) ==
    LET m == run.manager
    IN  IF run.error # "" THEN {run}
        ELSE IF name = "readMemoryFile"
        THEN IF env.fileOk
             THEN {Completed([run EXCEPT !.currentMemory = m.file], name)}
             ELSE {Thrown(run, "Failed to read memory file")}
        ELSE IF name = "exportGraph"
        THEN LET exported == exportGraph(m, env.mcpOk)
             IN  {Completed([run EXCEPT !.manager = exported.manager,
                                        !.graphData = exported.graph], name)}
        ELSE IF name = "compressObservations"
        THEN {Completed([run EXCEPT !.handed = m.pendingObservations,
                                    !.compressed = compressed], name) :
                compressed \in compressObservations(EngineOf(m),
                                                    m.pendingObservations)}
        ELSE IF name = "prepareMemoryUpdate"
        THEN IF run.currentMemory.wellFormed
             THEN {Completed([run EXCEPT !.updatedMemory =
                                 prepareMemoryUpdate(m, run.currentMemory,
                                                     run.graphData,
                                                     run.compressed)], name)}
             ELSE {Thrown(run, "Cannot set properties of undefined")}
        ELSE IF name = "writeMemoryFile"
        THEN IF env.writeOk
             THEN {Completed([run EXCEPT !.manager.file = run.updatedMemory],
                             name)}
             ELSE {Thrown(run, "Failed to write memory file")}
        ELSE IF name = "finalizeTracking"
        THEN {Completed([run EXCEPT !.manager = finalizeTracking(m)], name)}
        ELSE {Completed([run EXCEPT !.manager.sessionActive = FALSE,
                                    !.manager.pendingObservations = <<>>],
                        name)}

RECURSIVE RunStages(_, _, _)
RunStages(stages, runs, env) ==
    IF stages = <<>> THEN runs
    ELSE RunStages(Tail(stages),
                   UNION {Stage(Head(stages), run, env) : run \in runs}, env)

\* endSession: refused without a session; otherwise the try block, whose
\* outcome is success when nothing was thrown
endSession(m, env) ==
    IF ~m.sessionActive
    THEN {[manager |-> m, run |-> NewRun(m),
           result |-> Failure("No active session to end")]}
    ELSE {[manager |-> run.manager, run |-> run,
           result |-> IF run.error = ""
                      THEN Success("Memory session ended and changes persisted")
                      ELSE Failure(run.error)] :
            run \in RunStages(EndStages, {NewRun(m)}, env)}

(* Inputs of a session *)

\* most calls of recordObservation made on one manager
MaxRecorded == 2

\* the memory files of SessionSpec: an empty one, and one that parses but
\* has no sections
SessionFiles == {MemoryFile(<<>>, <<>>, TRUE), MemoryFile(<<>>, <<>>, FALSE)}

\* what the environment does during endSession
EndEnvironments ==
    [fileOk : BOOLEAN, mcpOk : BOOLEAN, writeOk : BOOLEAN]

\* two similar observations of one entity
SessionCalls ==
    {[entityName |-> "e1", observation |-> cMemory],
     [entityName |-> "e1", observation |-> cMemoryUp]}

PlainOptions == [confidence |-> NoConfidence, category |-> "", is_critical |-> FALSE]

(* Actions of a session *)

ConstructSessionManager ==
    /\ Idle
    /\ ~manager.constructed
    /\ \E file \in SessionFiles :
         manager' = [NoManager EXCEPT !.constructed = TRUE,
                                      !.compressionThreshold = 2,
                                      !.file = file]
    /\ UNCHANGED <<handlers, layer, calls, history, engine, service, op, args, outcome, result>>

CallRecordInSession ==
    /\ Idle
    /\ manager.initialized
    /\ history.recorded < MaxRecorded
    /\ \E call \in SessionCalls, fileOk \in BOOLEAN, mcpOk \in BOOLEAN :
         LET r == recordObservation(manager, call.entityName, "person",
                                    call.observation, PlainOptions,
                                    fileOk, mcpOk)
         IN  /\ manager' = r.manager
             /\ result' = r.result
             /\ args' = call
    /\ history' = [history EXCEPT !.recorded = @ + 1]
    /\ op' = "recordObservation"
    /\ outcome' = "returned"
    /\ UNCHANGED <<handlers, layer, calls, engine, service>>

\* the result carries, next to success and message, the record of the run
CallEndSession ==
    /\ Idle
    /\ manager.initialized
    /\ \E env \in EndEnvironments :
         /\ args' = env
         /\ \E r \in endSession(manager, env) :
              /\ manager' = r.manager
              /\ result' = [success |-> r.result.success,
                            message |-> r.result.message,
                            done |-> r.run.done, handed |-> r.run.handed]
    /\ op' = "endSession"
    /\ outcome' = "returned"
    /\ UNCHANGED <<handlers, layer, calls, history, engine, service>>

SessionNext ==
    \/ ConstructSessionManager
    \/ CallInitialize
    \/ CallStartSession
    \/ CallRecordInSession
    \/ CallEndSession
    \/ Return

SessionSpec == Init /\ [][SessionNext]_vars

(* C24 *)

\* C24: endSession is all or nothing for the session state.  A call that
\* returns success = false leaves sessionActive and pendingObservations as
\* they were and does not finalize token tracking; a call that returns
\* success = true leaves the session inactive and pendingObservations empty
C24_EndSessionAllOrNothing ==
    [][op' = "endSession" =>
         IF result'.success
         THEN /\ ~manager'.sessionActive
              /\ manager'.pendingObservations = <<>>
         ELSE /\ manager'.sessionActive = manager.sessionActive
              /\ manager'.pendingObservations = manager.pendingObservations
              /\ manager'.tracking = manager.tracking]_vars

\* endSession failed at the write, after compressing two queued observations
C24_Witness ==
    /\ op = "endSession"
    /\ ~result.success
    /\ result.message = "Failed to write memory file"
    /\ Len(result.handed) = 2
    /\ manager.sessionActive
    /\ manager.tracking
    /\ manager.pendingObservations = result.handed

(* C25 *)

\* in the record of a run, statement a was completed before statement b
\* whenever b was completed
CompletedBefore(done, a, b) ==
    \A j \in DOMAIN done :
        done[j] = b => \E i \in 1..(j - 1) : done[i] = a

\* C25: in every endSession the pending observations are compressed, then
\* the merged memory is written, then token tracking is finalized; the
\* session is marked inactive and the pending list cleared only after the
\* write has succeeded
C25_CompressWriteFinalizeClose ==
    op = "endSession" =>
        /\ CompletedBefore(result.done, "compressObservations",
                           "writeMemoryFile")
        /\ CompletedBefore(result.done, "writeMemoryFile", "finalizeTracking")
        /\ CompletedBefore(result.done, "writeMemoryFile", "close")
        /\ (result.done # <<>> /\ ~manager.sessionActive
              => \E i \in DOMAIN result.done :
                    result.done[i] = "writeMemoryFile")
        /\ (result.done # <<>> /\ manager.pendingObservations # result.handed
              => \E i \in DOMAIN result.done :
                    result.done[i] = "writeMemoryFile")

\* an endSession that went through: two observations compressed into one,
\* which the written file holds
C25_Witness ==
    /\ op = "endSession"
    /\ result.success
    /\ Len(result.handed) = 2
    /\ Len(result.done) = 7
    /\ Len(manager.file.compressed_observations) = 1
    /\ ~manager.sessionActive
    /\ ~manager.tracking

(* C26 *)

\* the observation the last recordObservation queued
LastQueued == manager.pendingObservations[Len(manager.pendingObservations)]

\* the memory server holds that observation under that entity
StoredInGraph(entityName, observation) ==
    \E k \in DOMAIN manager.store :
        /\ manager.store[k].name = entityName
        /\ \E j \in DOMAIN manager.store[k].observations :
              manager.store[k].observations[j] = observation

\* C26: recordObservation returns success = true only if the observation
\* was stored in the knowledge graph; when createEntity or addObservation
\* of the graph fails, it reports failure
C26_SuccessMeansStored ==
    op = "recordObservation" /\ result.success
        => StoredInGraph(args.entityName, LastQueued.observation)

(* C27 *)

\* C27: whenever recordObservation returns success a session is active; a
\* call made without a session that cannot start one does not queue or
\* store the observation
C27_SuccessMeansSessionActive ==
    op = "recordObservation" /\ result.success => manager.sessionActive

-----------------------------------------------------------------------------
(* MemoryManager with overlapping calls.  An async method runs on its own
   up to its first await and between two awaits; at an await other calls
   take their turn.  Each call in flight is an entry of calls, whose pc
   names the await it is suspended at; one action completes one await and
   runs the method to its next one. *)

\* most calls issued on one manager
MaxCalls == 3

\* the text call number ref records
ObservationOf(ref) == cMemory \o <<" ", DigitSeq[ref + 1]>>

NewCall(method, ref) ==
    [method |-> method, pc |-> "called", ref |-> ref, exists |-> FALSE,
     run |-> NewRun(NoManager), result |-> Failure("")]

\* the call numbers of the observations of a pending list
RefsOf(pendingObservations) ==
    {ref \in 1..MaxCalls :
        \E k \in DOMAIN pendingObservations :
            pendingObservations[k].observation.content = ObservationOf(ref)}

\* the manager (m), the running call (c) and the history (h) after the
\* call returned r
Returned(w, r) ==
    [w EXCEPT
        !.c.pc = "returned",
        !.c.result = r,
        !.h.succeeded =
            IF w.c.method = "recordObservation" /\ r.success
            THEN @ \cup {w.c.ref} ELSE @,
        !.h.handed =
            IF w.c.method = "endSession" /\ r.success
            THEN @ \cup RefsOf(w.c.run.handed) ELSE @,
        !.h.started =
            IF w.c.method = "endSession" /\ r.success THEN 0 ELSE @]

\* recordObservation from its try block to the await of entityExists
Queue(w) ==
    [w EXCEPT
        !.m.pendingObservations =
            Append(@, [entityName |-> "e1", entityType |-> "person",
                       observation |->
                           observationData(ObservationOf(w.c.ref),
                                           PlainOptions)]),
        !.c.pc = "entityExists"]

\* startSession came back with r: the caller of startSession has it, and
\* recordObservation, which does not look at it, goes on
AfterStartSession(w, r) ==
    IF w.c.method = "startSession" THEN Returned(w, r) ELSE Queue(w)

\* startSession up to its await of readMemoryFile
BeginStartSession(w) ==
    IF w.m.sessionActive
    THEN AfterStartSession(w, Failure("Session already active"))
    ELSE [w EXCEPT !.m = startTracking(@),
                   !.c.pc = "startSession.readMemoryFile"]

\* recordObservation up to its first await
BeginRecordObservation(w) ==
    IF ~w.m.sessionActive THEN BeginStartSession(w) ELSE Queue(w)

\* endSession up to its await of readMemoryFile
BeginEndSession(w) ==
    IF ~w.m.sessionActive
    THEN Returned(w, Failure("No active session to end"))
    ELSE [w EXCEPT !.c.pc = "readMemoryFile"]

\* the statements `names` of endSession, run on the manager as it stands
\* now; the run kept in the call does not hold a manager
RunOn(w, names, env) ==
    {[w EXCEPT !.m = run.manager,
               !.c.run = [run EXCEPT !.manager = NoManager]] :
        run \in RunStages(names, {[w.c.run EXCEPT !.manager = w.m]}, env)}

\* endSession after some of its statements: in the catch block when one of
\* them threw, else suspended at `next`, or returning when nothing is left
Suspend(w, next) ==
    IF w.c.run.error # "" THEN Returned(w, Failure(w.c.run.error))
    ELSE IF next = "return"
    THEN Returned(w, Success("Memory session ended and changes persisted"))
    ELSE [w EXCEPT !.c.pc = next]

World(i) == [m |-> manager, c |-> calls[i], h |-> history]

Becomes(i, w) ==
    /\ manager' = w.m
    /\ calls' = [calls EXCEPT ![i] = w.c]
    /\ history' = w.h
    /\ UNCHANGED <<handlers, engine, service, layer, op, args, outcome, result>>

\* a call can be issued: the manager has its components, and the bound on
\* the number of calls is not reached
CanIssue ==
    /\ manager.initialized
    /\ Len(calls) < MaxCalls

Fresh(method) ==
    [m |-> manager, c |-> NewCall(method, Len(calls) + 1), h |-> history]

Issued(w) ==
    /\ manager' = w.m
    /\ calls' = Append(calls, w.c)
    /\ history' = w.h
    /\ UNCHANGED <<handlers, engine, service, layer, op, args, outcome, result>>

(* Actions: a call is issued and runs to its first await *)

IssueRecordObservation ==
    /\ CanIssue
    /\ Issued(BeginRecordObservation(Fresh("recordObservation")))

IssueStartSession ==
    /\ CanIssue
    /\ Issued(BeginStartSession(Fresh("startSession")))

IssueEndSession ==
    /\ CanIssue
    /\ Issued(BeginEndSession(Fresh("endSession")))

(* Actions: an await completes *)

\* startSession: readMemoryFile resolved or rejected
StartSessionRead ==
    \E i \in DOMAIN calls, fileOk \in BOOLEAN :
        /\ calls[i].pc = "startSession.readMemoryFile"
        /\ Becomes(i, IF fileOk
                      THEN [World(i) EXCEPT
                               !.c.pc = "startSession.load",
                               !.c.run.currentMemory = manager.file]
                      ELSE AfterStartSession(
                               World(i),
                               Failure("Failed to start memory session")))

\* startSession: loadMemoryIntoKnowledgeGraph resolved; the session is
\* active from here
StartSessionLoaded ==
    \E i \in DOMAIN calls, mcpOk \in BOOLEAN :
        /\ calls[i].pc = "startSession.load"
        /\ Becomes(i, AfterStartSession(
                          [World(i) EXCEPT
                              !.m = [loadMemoryIntoKnowledgeGraph(
                                         manager,
                                         calls[i].run.currentMemory, mcpOk)
                                       EXCEPT !.sessionActive = TRUE],
                              !.h.started = @ + 1],
                          Success("Memory session started")))

\* recordObservation: entityExists resolved
RecordEntityExists ==
    \E i \in DOMAIN calls, mcpOk \in BOOLEAN :
        /\ calls[i].pc = "entityExists"
        /\ LET found == entityExists(manager, "e1", mcpOk)
           IN  Becomes(i, [World(i) EXCEPT !.m = found.manager,
                                           !.c.exists = found.exists,
                                           !.c.pc = "store"])

\* recordObservation: createEntity or addObservation resolved; the call
\* tracks the operation and returns
RecordStored ==
    \E i \in DOMAIN calls, mcpOk \in BOOLEAN :
        /\ calls[i].pc = "store"
        /\ LET data == observationData(ObservationOf(calls[i].ref),
                                       PlainOptions)
               stored == IF calls[i].exists
                         THEN addObservation(manager, "e1", data, mcpOk)
                         ELSE createEntity(manager,
                                           Entity("e1", "person", <<data>>),
                                           mcpOk)
           IN  Becomes(i, Returned(
                              [World(i) EXCEPT
                                  !.m = trackOperation(stored.manager)],
                              Success("Observation recorded")))

\* endSession: readMemoryFile resolved or rejected
EndSessionRead ==
    \E i \in DOMAIN calls, env \in EndEnvironments :
        /\ calls[i].pc = "readMemoryFile"
        /\ \E w \in RunOn(World(i), <<"readMemoryFile">>, env) :
              Becomes(i, Suspend(w, "exportGraph"))

\* endSession: exportGraph resolved; compressObservations is called, and
\* being without an await of its own it has worked through
\* pendingObservations before endSession is suspended on its promise
EndSessionExported ==
    \E i \in DOMAIN calls, env \in EndEnvironments :
        /\ calls[i].pc = "exportGraph"
        /\ \E w \in RunOn(World(i),
                          <<"exportGraph", "compressObservations">>, env) :
              Becomes(i, Suspend(w, "compressObservations"))

\* endSession: the promise of compressObservations resolved; the update is
\* prepared and writeMemoryFile called
EndSessionCompressed ==
    \E i \in DOMAIN calls, env \in EndEnvironments :
        /\ calls[i].pc = "compressObservations"
        /\ \E w \in RunOn(World(i), <<"prepareMemoryUpdate">>, env) :
              Becomes(i, Suspend(w, "writeMemoryFile"))

\* endSession: writeMemoryFile resolved or rejected; after a write the
\* call finalizes tracking, closes the session and returns
EndSessionWritten ==
    \E i \in DOMAIN calls, env \in EndEnvironments :
        /\ calls[i].pc = "writeMemoryFile"
        /\ \E w \in RunOn(World(i),
                          <<"writeMemoryFile", "finalizeTracking", "close">>,
                          env) :
              Becomes(i, Suspend(w, "return"))

AsyncNext ==
    \/ ConstructSessionManager
    \/ CallInitialize
    \/ Return
    \/ IssueRecordObservation
    \/ IssueStartSession
    \/ IssueEndSession
    \/ StartSessionRead
    \/ StartSessionLoaded
    \/ RecordEntityExists
    \/ RecordStored
    \/ EndSessionRead
    \/ EndSessionExported
    \/ EndSessionCompressed
    \/ EndSessionWritten

AsyncSpec == Init /\ [][AsyncNext]_vars

(* C22 *)

Pending(ref) == ref \in RefsOf(manager.pendingObservations)

\* C22: under every interleaving of recordObservation and endSession,
\* every observation for which recordObservation returned success is
\* handed to compressObservations by the next successful endSession: it is
\* still pending, or a successful endSession had it in the list it
\* compressed
C22_RecordedIsCompressedOrPending ==
    \A ref \in history.succeeded : Pending(ref) \/ ref \in history.handed

(* C23 *)

\* C23: between two successful endSession calls the session start sequence
\* (tracking reset, file read, graph load) runs at most once, also when
\* calls are issued together while no session is active
C23_SessionStartedOnce == history.started <= 1

-----------------------------------------------------------------------------
(* PersistenceLayer (unnamed/part_003).  The memory data is the values of
   two keys; the main file holds one such content and each backup file
   another.  Every _readFile and _writeFile of a call works or is rejected,
   as the environment decides. *)

\* most attempts the environment decides on in one call
MaxAttempts == 3
\* most backup files
MaxBackups == 2

MemoryData == [a : {0, 1}, b : {0, 1}]

\* stands for null or undefined handed in as memory data
NullData == [a |-> -1, b |-> -1]

\* retryAttempts a caller configures: the default, one, and none
RetryChoices == {3, 1, 0}

\* the fate of each attempt of a call, in order
AttemptOutcomes == [1..MaxAttempts -> BOOLEAN]

\* what the file system does during writeMemoryFile or restoreFromBackup
WriteEnvironments ==
    [sourceRead : BOOLEAN, backupRead : BOOLEAN, backupWrite : BOOLEAN,
     writes : AttemptOutcomes]

\* the while loop of readMemoryFile and writeMemoryFile from `attempts`
\* failures on: how it ends and how many times it ran the try block
RECURSIVE RetryLoop(_, _, _)
RetryLoop(retryAttempts, outcomes, attempts) ==
    IF ~(attempts < retryAttempts)
    THEN [ended |-> "fell through", tries |-> attempts]
    ELSE IF outcomes[attempts + 1]
    THEN [ended |-> "returned", tries |-> attempts + 1]
    ELSE IF attempts + 1 >= retryAttempts
    THEN [ended |-> "threw", tries |-> attempts + 1]
    ELSE RetryLoop(retryAttempts, outcomes, attempts + 1)

\* what a call of the layer comes back with: parsed data, a boolean,
\* undefined or a thrown Error; tries counts the attempts of its loop
Came(how, kind, data, flag, tries) ==
    [outcome |-> how, kind |-> kind, data |-> data, flag |-> flag,
     tries |-> tries]

\* lastError after a loop: set by every failed attempt
AfterLoop(l, loop, what) ==
    IF loop.ended = "threw" \/ loop.tries > 1
    THEN [l EXCEPT !.lastError = what]
    ELSE l

readMemoryFile(l, reads) ==
    LET loop == RetryLoop(l.options.retryAttempts, reads, 0)
        after == AfterLoop(l, loop, "read")
    IN  IF loop.ended = "returned"
        THEN [layer |-> after,
              came |-> Came("returned", "data", l.main, FALSE, loop.tries)]
        ELSE IF loop.ended = "threw"
        THEN [layer |-> after,
              came |-> Came("threw", "Error", NullData, FALSE, loop.tries)]
        ELSE [layer |-> after,
              came |-> Came("returned", "undefined", NullData, FALSE,
                            loop.tries)]

\* _createBackup: the main file is read and written to a new backup file;
\* whatever fails is caught and false returned
_createBackup(l, readOk, writeOk) ==
    IF readOk /\ writeOk
    THEN [layer |-> [l EXCEPT !.backups = Append(@, l.main)],
          created |-> TRUE]
    ELSE [layer |-> l, created |-> FALSE]

\* writeMemoryFile: the backup first (its result is not looked at), then the
\* loop; `return false` after a loop that never ran
writeMemoryFile(l, memoryData, env) ==
    IF memoryData = NullData
    THEN [layer |-> l, came |-> Came("threw", "Error", NullData, FALSE, 0)]
    ELSE LET backed == IF l.options.backupOnWrite
                       THEN _createBackup(l, env.backupRead,
                                          env.backupWrite).layer
                       ELSE l
             loop == RetryLoop(l.options.retryAttempts, env.writes, 0)
             after == AfterLoop(backed, loop, "write")
         IN  IF loop.ended = "returned"
             THEN [layer |-> [after EXCEPT !.main = memoryData],
                   came |-> Came("returned", "boolean", NullData, TRUE,
                                 loop.tries)]
             ELSE IF loop.ended = "threw"
             THEN [layer |-> after,
                   came |-> Came("threw", "Error", NullData, FALSE,
                                 loop.tries)]
             ELSE [layer |-> after,
                   came |-> Came("returned", "boolean", NullData, FALSE,
                                 loop.tries)]

\* restoreFromBackup of the k-th backup file: read it, back the main file
\* up (result not looked at), write the main file once
restoreFromBackup(l, k, env) ==
    IF ~env.sourceRead
    THEN [layer |-> [l EXCEPT !.lastError = "restore"],
          came |-> Came("returned", "boolean", NullData, FALSE, 0)]
    ELSE LET backed == _createBackup(l, env.backupRead, env.backupWrite).layer
         IN  IF env.writes[1]
             THEN [layer |-> [backed EXCEPT !.main = l.backups[k]],
                   came |-> Came("returned", "boolean", NullData, TRUE, 1)]
             ELSE [layer |-> [backed EXCEPT !.lastError = "restore"],
                   came |-> Came("returned", "boolean", NullData, FALSE, 1)]

(* Actions of the layer, one call after another *)

\* new PersistenceLayer(path, options) over an existing memory file
ConstructLayer ==
    /\ Idle
    /\ ~layer.constructed
    /\ \E backupOnWrite \in BOOLEAN, retryAttempts \in RetryChoices :
         layer' = [NoLayer EXCEPT
                      !.constructed = TRUE,
                      !.options = [backupOnWrite |-> backupOnWrite,
                                   retryAttempts |-> retryAttempts]]
    /\ UNCHANGED <<handlers, engine, service, manager, calls, history, op, args,
                   outcome, result>>

CallReadMemoryFile ==
    /\ Idle
    /\ layer.constructed
    /\ \E reads \in AttemptOutcomes :
         LET r == readMemoryFile(layer, reads)
         IN  /\ layer' = r.layer
             /\ args' = [reads |-> reads]
             /\ outcome' = r.came.outcome
             /\ result' = r.came
    /\ op' = "readMemoryFile"
    /\ UNCHANGED <<handlers, engine, service, manager, calls, history>>

CallWriteMemoryFile ==
    /\ Idle
    /\ layer.constructed
    /\ Len(layer.backups) < MaxBackups
    /\ \E memoryData \in MemoryData \cup {NullData},
          env \in WriteEnvironments :
         LET r == writeMemoryFile(layer, memoryData, env)
         IN  /\ layer' = r.layer
             /\ args' = [memoryData |-> memoryData, env |-> env]
             /\ outcome' = r.came.outcome
             /\ result' = r.came
    /\ op' = "writeMemoryFile"
    /\ UNCHANGED <<handlers, engine, service, manager, calls, history>>

CallRestoreFromBackup ==
    /\ Idle
    /\ layer.constructed
    /\ Len(layer.backups) < MaxBackups
    /\ \E k \in DOMAIN layer.backups, env \in WriteEnvironments :
         LET r == restoreFromBackup(layer, k, env)
         IN  /\ layer' = r.layer
             /\ args' = [backup |-> k, env |-> env]
             /\ outcome' = r.came.outcome
             /\ result' = r.came
    /\ op' = "restoreFromBackup"
    /\ UNCHANGED <<handlers, engine, service, manager, calls, history>>

PersistenceNext ==
    \/ ConstructLayer
    \/ CallReadMemoryFile
    \/ CallWriteMemoryFile
    \/ CallRestoreFromBackup
    \/ Return

PersistenceSpec == Init /\ [][PersistenceNext]_vars

(* C28 *)

\* C28: with backupOnWrite enabled, writeMemoryFile and restoreFromBackup
\* overwrite the main memory file only after a backup file holding its
\* previous content was written; when the backup cannot be created the main
\* file is left unchanged
C28_OverwriteOnlyAfterBackup ==
    [][(/\ op' \in {"writeMemoryFile", "restoreFromBackup"}
        /\ layer.options.backupOnWrite
        /\ layer'.main # layer.main)
          => layer'.backups = Append(layer.backups, layer.main)]_vars

(* C30 *)

\* C30: readMemoryFile and writeMemoryFile make at most retryAttempts
\* attempts and end in exactly one of two ways, for every configured
\* retryAttempts: they return on the first successful attempt (the parsed
\* data, respectively true), or reject after retryAttempts failures
C30_ReturnsValueOrRejectsAfterRetries ==
    op \in {"readMemoryFile", "writeMemoryFile"}
        => /\ result.tries <= layer.options.retryAttempts
           /\ \/ /\ outcome = "returned"
                 /\ \/ result.kind = "data"
                    \/ result.kind = "boolean" /\ result.flag
              \/ /\ outcome = "threw"
                 /\ \/ result.tries = layer.options.retryAttempts
                    \/ op = "writeMemoryFile" /\ args.memoryData = NullData

-----------------------------------------------------------------------------
(* PersistenceLayer.updateMemoryFile with overlapping calls: a call is
   suspended while it reads the file and while it writes it *)

UpdatedKeys == {"a", "b"}

\* updateMemoryFile({ [key]: 1 }) up to its await of readMemoryFile
IssueUpdateMemoryFile ==
    /\ layer.constructed
    /\ Len(calls) < MaxCalls
    /\ \E key \in UpdatedKeys :
         calls' = Append(calls, [method |-> "updateMemoryFile",
                                 pc |-> "readMemoryFile", key |-> key,
                                 memoryData |-> NullData, flag |-> FALSE])
    /\ UNCHANGED <<handlers, engine, service, manager, layer, history, op, args,
                   outcome, result>>

\* readMemoryFile came back: the update is applied to the data read and
\* writeMemoryFile called; a rejection, and the TypeError of assigning to
\* undefined, end in the catch block
UpdateRead ==
    /\ \E i \in DOMAIN calls, reads \in AttemptOutcomes :
         /\ calls[i].pc = "readMemoryFile"
         /\ LET r == readMemoryFile(layer, reads)
            IN  IF r.came.kind = "data"
                THEN /\ layer' = r.layer
                     /\ calls' = [calls EXCEPT
                           ![i].pc = "writeMemoryFile",
                           ![i].memoryData =
                               [r.came.data EXCEPT ![calls[i].key] = 1]]
                ELSE /\ layer' = [r.layer EXCEPT !.lastError = "update"]
                     /\ calls' = [calls EXCEPT ![i].pc = "returned",
                                               ![i].flag = FALSE]
    /\ UNCHANGED <<handlers, engine, service, manager, history, op, args, outcome,
                   result>>

\* writeMemoryFile came back: its boolean is returned, a rejection ends in
\* the catch block
UpdateWritten ==
    /\ \E i \in DOMAIN calls, env \in WriteEnvironments :
         /\ calls[i].pc = "writeMemoryFile"
         /\ LET w == writeMemoryFile(layer, calls[i].memoryData, env)
            IN  /\ layer' = IF w.came.outcome = "threw"
                            THEN [w.layer EXCEPT !.lastError = "update"]
                            ELSE w.layer
                /\ calls' = [calls EXCEPT
                      ![i].pc = "returned",
                      ![i].flag = (w.came.outcome = "returned"
                                   /\ w.came.flag)]
    /\ UNCHANGED <<handlers, engine, service, manager, history, op, args, outcome,
                   result>>

UpdateNext ==
    \/ ConstructLayer
    \/ IssueUpdateMemoryFile
    \/ UpdateRead
    \/ UpdateWritten

UpdateSpec == Init /\ [][UpdateNext]_vars

(* C29 *)

\* C29: when updateMemoryFile calls that set different keys overlap, no
\* update is lost: the memory file holds the value of every update that
\* returned true
C29_NoUpdateLost ==
    \A i \in DOMAIN calls :
        calls[i].pc = "returned" /\ calls[i].flag
            => layer.main[calls[i].key] = 1

-----------------------------------------------------------------------------
(* compressObservations for entity names and categories that hold the ':'
   of the group key *)

\* observations of the entity "a:b" in category "c", of the entity "a" in
\* category "b:c", and of an entity and a category without a ':'
SeparatorItems ==
    { Item("a:b", Obs(cMemory,   Now, 5, "c",   FALSE)),
      Item("a",   Obs(cMemoryUp, Now, 5, "b:c", FALSE)),
      Item("a",   Obs(cMemory,   Now, 5, "c",   FALSE)),
      Item("a:b", Obs(cStorage,  Now, 5, "b:c", FALSE)) }

SeparatorLists == UNION {[1..n -> SeparatorItems] : n \in 0..MaxPending}

CallCompressSeparated ==
    /\ Idle
    /\ engine.constructed
    /\ \E pendingObservations \in SeparatorLists :
          /\ args' = [pendingObservations |-> pendingObservations]
          /\ \E r \in compressObservations(engine, pendingObservations) :
                result' = r
    /\ op' = "compressObservations"
    /\ outcome' = "returned"
    /\ UNCHANGED <<handlers, layer, calls, history, engine, service, manager>>

SeparatorNext ==
    \/ ConstructEngine
    \/ CallCompressSeparated
    \/ Return

SeparatorSpec == Init /\ [][SeparatorNext]_vars

(* C32 *)

\* C32: all observations merged into one compressed observation belong to
\* one entity and one category, and the category of the compressed
\* observation is that category, also for names and categories that hold
\* the ':' of the group key
C32_OneEntityOneCategory ==
    Compressed =>
        \A k \in DOMAIN result :
            \A m \in DOMAIN result[k].members :
                LET item == args.pendingObservations[result[k].members[m]]
                IN  /\ item.entityName = result[k].entityName
                    /\ CategoryOf(item.observation) = result[k].category

-----------------------------------------------------------------------------
(* the summarizer on its own: _getMostCommon over candidate lists of up to
   MaxWords tokens, _generateSummary over clusters of up to MaxPending
   observations *)

\* three words and two tokens made only of digits, all longer than 3
\* characters
CandidateTokens ==
    { <<"U","s","e","r">>, <<"a","s","k","e","d">>, <<"m","e","m","o","r","y">>, <<"2","0","2","4">>, <<"1","9","9","9">> }

CandidateLists == UNION {[1..n -> CandidateTokens] : n \in 0..MaxWords}

\* observations whose first word is a word or a numeral
SummaryObservations ==
    { Obs(cMemory, Now, 5, "goal", FALSE),
      Obs(<<"2","0","2","4"," ","a","s","k","e","d"," ","a","b","o","u","t"," ","m","e","m","o","r","y">>, Now, 5, "goal", FALSE),
      Obs(<<"U","s","e","r"," ","1","9","9","9"," ","a","b","o","u","t"," ","s","t","o","r","a","g","e">>, Now, 5, "goal", FALSE),
      Obs(<<"n","o"," ","v","e","r","b">>, Now, 5, "goal", FALSE) }

SummaryClusters ==
    UNION {[1..n -> SummaryObservations] : n \in 1..MaxPending}

CallGetMostCommon ==
    /\ Idle
    /\ \E arr \in CandidateLists :
          /\ args' = [arr |-> arr]
          /\ result' = _getMostCommon(arr)
    /\ op' = "_getMostCommon"
    /\ outcome' = "returned"
    /\ UNCHANGED <<handlers, layer, calls, history, engine, service, manager>>

CallGenerateSummary ==
    /\ Idle
    /\ \E cluster \in SummaryClusters :
          /\ args' = [cluster |-> cluster]
          /\ result' = _generateSummary(cluster)
    /\ op' = "_generateSummary"
    /\ outcome' = "returned"
    /\ UNCHANGED <<handlers, layer, calls, history, engine, service, manager>>

SummaryNext ==
    \/ CallGetMostCommon
    \/ CallGenerateSummary
    \/ Return

SummarySpec == Init /\ [][SummaryNext]_vars

(* C37 *)

\* the most frequent element of arr, of equally frequent ones the one seen
\* first; <<>> for an empty arr
MostFrequentFirstSeen(arr) ==
    IF arr = <<>> THEN <<>>
    ELSE LET k == CHOOSE i \in DOMAIN arr :
                     /\ \A j \in DOMAIN arr :
                           Count(arr, arr[j]) <= Count(arr, arr[i])
                     /\ \A j \in 1..(i - 1) :
                           Count(arr, arr[j]) < Count(arr, arr[i])
         IN  arr[k]

\* the head of the summary the candidates of a cluster call for
SummaryHead(cluster) ==
    OrElse(MostFrequentFirstSeen(Collect(cluster, "subject")), <<"S","u","b","j","e","c","t">>)
    \o <<" ">> \o
    OrElse(MostFrequentFirstSeen(Collect(cluster, "action")), <<"p","e","r","f","o","r","m","e","d"," ","a","c","t","i","o","n">>)
    \o <<" ">> \o
    OrElse(MostFrequentFirstSeen(Collect(cluster, "object")), <<"o","b","j","e","c","t">>)

\* C37: subject, action and object of a summary are each the most frequent
\* candidate of the role, of equally frequent ones the first seen in the
\* order of the cluster, also for candidates made only of digits
C37_MostFrequentFirstSeen ==
    /\ (op = "_getMostCommon" /\ outcome = "returned") =>
           result = MostFrequentFirstSeen(args.arr)
    /\ (op = "_generateSummary" /\ outcome = "returned") =>
           /\ Len(result) >= Len(SummaryHead(args.cluster))
           /\ SubSeq(result, 1, Len(SummaryHead(args.cluster)))
                  = SummaryHead(args.cluster)


(* C36 *)

\* ` (observed n times)`
ObservedSuffix(n) ==
    <<" ","(","o","b","s","e","r","v","e","d"," ">> \o Decimal(n) \o <<" ","t","i","m","e","s",")">>

EndsWith(s, suffix) ==
    /\ Len(s) >= Len(suffix)
    /\ SubSeq(s, Len(s) - Len(suffix) + 1, Len(s)) = suffix

\* C36: the timestamp of a compressed observation is the most recent one of
\* its members; source_observations lists the contents of the members, each
\* once, by non-increasing timestamp, members of equal timestamp in input
\* order; its length is the n of the suffix '(observed n times)'
C36_NewestFirstSources ==
    Compressed =>
        \A k \in DOMAIN result :
            LET members == result[k].members
                n == Len(result[k].source_observations)
            IN  /\ n = Len(members)
                /\ \A a, b \in DOMAIN members :
                      a # b => members[a] # members[b]
                /\ \A m \in DOMAIN members :
                      /\ result[k].source_observations[m]
                            = Source(members[m]).content
                      /\ Source(members[m]).timestamp <= result[k].timestamp
                /\ \E m \in DOMAIN members :
                      Source(members[m]).timestamp = result[k].timestamp
                /\ \A a, b \in DOMAIN members :
                      a < b =>
                        \/ Source(members[a]).timestamp
                               > Source(members[b]).timestamp
                        \/ /\ Source(members[a]).timestamp
                                  = Source(members[b]).timestamp
                           /\ members[a] < members[b]
                /\ EndsWith(result[k].content, ObservedSuffix(n))


(* C35 *)

\* confidence < minConfidence
BelowMinConfidence(observation) ==
    /\ observation.confidence # NoConfidence
    /\ observation.confidence < engine.options.minConfidence

\* older than maxObservationAge days at the time of the call
TooOld(observation) ==
    /\ observation.timestamp # NoTimestamp
    /\ Now - observation.timestamp > engine.options.maxObservationAge

\* C35: no observation of confidence below minConfidence and none older
\* than maxObservationAge days is a source of a compressed observation, and
\* none counts toward compressionThreshold: the observations of the group
\* that are neither reach the threshold without them; the same for
\* temporalCompression, in whatever time window the observation falls
C35_LowConfidenceAndOldExcluded ==
    Compressed =>
        \A k \in DOMAIN result :
            /\ \A m \in DOMAIN result[k].members :
                  /\ ~BelowMinConfidence(Source(result[k].members[m]))
                  /\ ~TooOld(Source(result[k].members[m]))
            /\ Cardinality({i \in DOMAIN args.pendingObservations :
                   /\ args.pendingObservations[i].entityName = result[k].entityName
                   /\ CategoryOf(args.pendingObservations[i].observation)
                          = result[k].category
                   /\ ~BelowMinConfidence(args.pendingObservations[i].observation)
                   /\ ~TooOld(args.pendingObservations[i].observation)})
                  >= engine.compressionThreshold

\* C35 witness: temporalCompression returned a compressed observation of an
\* entity of which also an observation older than maxObservationAge was
\* passed in, in the time window of the sources
C35_Witness ==
    /\ op = "temporalCompression"
    /\ outcome = "returned"
    /\ result # <<>>
    /\ \E i \in DOMAIN args.pendingObservations :
          /\ TooOld(args.pendingObservations[i].observation)
          /\ args.pendingObservations[i].entityName = result[1].entityName
          /\ CategoryOf(args.pendingObservations[i].observation)
                 = result[1].category
          /\ WindowKey(args.pendingObservations[i].observation.timestamp,
                       args.timeWindowDays) = result[1].time_window

-----------------------------------------------------------------------------
(* clustering on its own, over contents whose similarity is not transitive:
   'alpha beta' shares half of its tokens with 'alpha' and with 'beta',
   which share none *)

cAlphaBeta == <<"a","l","p","h","a"," ","b","e","t","a">>
cAlpha     == <<"a","l","p","h","a">>
cBeta      == <<"B","e","t","a","!">>

\* the observations of one entity and category; one of them is below
\* minConfidence
GreedyObservations ==
    { Obs(cAlphaBeta, Now, 5, "goal", FALSE),
      Obs(cAlpha,     Now, 5, "goal", FALSE),
      Obs(cBeta,      Now, 5, "goal", FALSE),
      Obs(cAlpha,     Now, 2, "goal", FALSE) }

GreedyLists == UNION {[1..n -> GreedyObservations] : n \in 0..MaxPending}

\* _clusterSimilarObservations(observations); position k of the list is the
\* identity of its k-th observation
CallClusterSimilarObservations ==
    /\ Idle
    /\ engine.constructed
    /\ \E observations \in GreedyLists :
          LET c == _clusterSimilarObservations(engine,
                       [k \in DOMAIN observations |->
                           [ref |-> k] @@ observations[k]])
          IN  /\ ~c.threw
              /\ args' = [observations |-> observations]
              /\ result' = c.clusters
    /\ op' = "_clusterSimilarObservations"
    /\ outcome' = "returned"
    /\ UNCHANGED <<handlers, layer, calls, history, engine, service, manager>>

CallCompressGreedy ==
    /\ Idle
    /\ engine.constructed
    /\ \E observations \in GreedyLists :
          LET pendingObservations ==
                  [k \in DOMAIN observations |-> Item("e1", observations[k])]
          IN  /\ args' = [pendingObservations |-> pendingObservations]
              /\ \E r \in compressObservations(engine, pendingObservations) :
                    result' = r
    /\ op' = "compressObservations"
    /\ outcome' = "returned"
    /\ UNCHANGED <<handlers, layer, calls, history, engine, service, manager>>

GreedyNext ==
    \/ ConstructEngine
    \/ CallClusterSimilarObservations
    \/ CallCompressGreedy
    \/ Return

GreedySpec == Init /\ [][GreedyNext]_vars

Clustered ==
    /\ op = "_clusterSimilarObservations"
    /\ outcome = "returned"

(* C33 *)

\* C33: the clusters of a group are pairwise disjoint and no cluster holds
\* an observation twice; each pending observation is a source of at most one
\* compressed observation, and a compressObservations result has no more
\* sources in all than there are eligible observations in the input
C33_ClustersDisjoint ==
    /\ Clustered =>
          \A k, l \in DOMAIN result :
              \A a \in DOMAIN result[k], b \in DOMAIN result[l] :
                  result[k][a].ref = result[l][b].ref => (k = l /\ a = b)
    /\ (op = "compressObservations" /\ outcome = "returned") =>
          /\ \A k, l \in DOMAIN result :
                \A a \in DOMAIN result[k].members,
                   b \in DOMAIN result[l].members :
                    result[k].members[a] = result[l].members[b]
                        => (k = l /\ a = b)
          /\ Sum([k \in DOMAIN result |-> Len(result[k].source_observations)])
                <= Cardinality({i \in DOMAIN args.pendingObservations :
                                   Eligible(args.pendingObservations[i])})

\* C33 witness: two seeds, and a later observation similar enough to both
C33_Witness ==
    /\ Clustered
    /\ \E i, j, s \in DOMAIN args.observations :
          /\ i < j /\ j < s
          /\ ~SimilarEnough(args.observations[i].content,
                            args.observations[j].content)
          /\ SimilarEnough(args.observations[i].content,
                           args.observations[s].content)
          /\ SimilarEnough(args.observations[j].content,
                           args.observations[s].content)
          /\ \E k \in DOMAIN result : \E a \in DOMAIN result[k] :
                result[k][a].ref = s


(* C34 *)

\* position j of the list of the call is similar enough to position i
SimilarAt(i, j) ==
    SimilarEnough(args.observations[i].content, args.observations[j].content)

\* the seeds of the greedy pass: a position is a seed when no earlier seed
\* is similar enough to it
SeedsOfCall ==
    LET n == Len(args.observations)
        isSeed == CHOOSE f \in [1..n -> BOOLEAN] :
                      \A j \in 1..n :
                          f[j] <=> \A i \in 1..(j - 1) : f[i] => ~SimilarAt(i, j)
    IN  {j \in 1..n : isSeed[j]}

\* the earliest seed before j that is similar enough to it
SeedOf(j) ==
    CHOOSE i \in SeedsOfCall :
        /\ i < j
        /\ SimilarAt(i, j)
        /\ \A h \in SeedsOfCall : (h < i) => ~SimilarAt(h, j)

\* the positions of the cluster of seed i: the seed, and the later positions
\* that are no seeds and whose earliest similar seed is i
ClusterOfSeed(i) ==
    {i} \cup {j \in DOMAIN args.observations :
                 j > i /\ j \notin SeedsOfCall /\ SeedOf(j) = i}

\* C34: the clusters returned are those of the greedy pass over the seeds,
\* in the order of their seeds, each in input order, a seed without
\* followers left out; the result is a function of the list and its order
C34_GreedySeedClusters ==
    Clustered =>
        /\ \A k \in DOMAIN result :
              /\ result[k][1].ref \in SeedsOfCall
              /\ {result[k][a].ref : a \in DOMAIN result[k]}
                     = ClusterOfSeed(result[k][1].ref)
              /\ \A a, b \in DOMAIN result[k] :
                    a < b => result[k][a].ref < result[k][b].ref
              /\ \A a \in DOMAIN result[k] :
                    [ref |-> result[k][a].ref]
                        @@ args.observations[result[k][a].ref] = result[k][a]
        /\ \A k, l \in DOMAIN result :
              k < l => result[k][1].ref < result[l][1].ref
        /\ \A i \in SeedsOfCall :
              Cardinality(ClusterOfSeed(i)) > 1 =>
                  \E k \in DOMAIN result : result[k][1].ref = i

\* C34 witness: a cluster with two members whose mutual similarity is below
\* the threshold
C34_Witness ==
    /\ Clustered
    /\ \E k \in DOMAIN result : \E a, b \in DOMAIN result[k] :
          ~SimilarEnough(result[k][a].content, result[k][b].content)


(* C39 *)

\* C39: the relations retrieveRelevantMemories returns hold each relation
\* (from, relationType, to) at most once, also a relation both of whose
\* endpoints are among the selected entities
C39_EachRelationOnce ==
    (op = "retrieveRelevantMemories" /\ outcome = "returned") =>
        \A i, j \in DOMAIN result.relations :
            (/\ result.relations[i].from = result.relations[j].from
             /\ result.relations[i].relationType
                    = result.relations[j].relationType
             /\ result.relations[i].to = result.relations[j].to)
                => i = j

(* C40 *)

\* C40: every entity that retrieveByCategory, retrieveCriticalMemories and
\* retrieveByTimeRange return carries at least one observation
C40_NoEntityWithoutObservations ==
    (/\ op \in {"retrieveByCategory", "retrieveCriticalMemories",
                "retrieveByTimeRange"}
     /\ outcome = "returned") =>
        \A k \in DOMAIN result.entities :
            Len(result.entities[k].observations) > 0

-----------------------------------------------------------------------------
(* What a call leaves of the objects it was given.  An object the caller
   passed in is known by its position in the caller's list; an object the
   call creates is NewObject.  The fields a call sets in an object show in
   the caller's list when that object is one of the caller's. *)

NewObject == 0

\* a wrong _compressCluster, which builds its result in the newest member
\* of the cluster, that C38 must tell from CompressedObject
CompressedIntoNewestMember(compressed) == compressed.members[1]

\* `return { content: summary, ... }`: the compressed observation is a new
\* object; temporalCompression sets time_window in that object
CompressedObject(compressed) == NewObject

\* the fields of a compressed observation (the model's entityName and
\* members are no fields of the object)
FieldsSet(compressed) ==
    [f \in DOMAIN compressed \ {"entityName", "members"} |-> compressed[f]]

\* the list passed to compressObservations or temporalCompression as the
\* call leaves it
LeftOfList(pendingObservations, returned) ==
    [k \in DOMAIN pendingObservations |->
        IF \E c \in DOMAIN returned : CompressedObject(returned[c]) = k
        THEN LET c == CHOOSE d \in DOMAIN returned :
                          CompressedObject(returned[d]) = k
             IN  [pendingObservations[k] EXCEPT
                     !.observation = FieldsSet(returned[c]) @@ @]
        ELSE pendingObservations[k]]

\* `{...entity, score, scores}` and `{...entity, observations: ...}`: an
\* entity of a result is a new object
ReturnedEntityObject(graph, entity) == NewObject

\* `{...relation, score}`: a relation of retrieveRelevantMemories is a new
\* object; retrieveCriticalMemories and retrieveByTimeRange hand out the
\* relation objects of the graph, in which they set nothing
ReturnedRelationObject(graph, relation) ==
    IF "score" \in DOMAIN relation THEN NewObject
    ELSE CHOOSE k \in DOMAIN graph.relations : graph.relations[k] = relation

\* the entities and relations of the graph as a retrieval call leaves them
LeftOfGraph(graph, returned) ==
    LET entities == IF "entities" \in DOMAIN returned
                    THEN returned.entities ELSE <<>>
        relations == IF "relations" \in DOMAIN returned
                     THEN returned.relations ELSE <<>>
    IN  [graph EXCEPT
           !.entities =
               [k \in DOMAIN @ |->
                   IF \E r \in DOMAIN entities :
                          ReturnedEntityObject(graph, entities[r]) = k
                   THEN entities[CHOOSE r \in DOMAIN entities :
                            ReturnedEntityObject(graph, entities[r]) = k] @@ @[k]
                   ELSE @[k]],
           !.relations =
               [k \in DOMAIN @ |->
                   IF \E r \in DOMAIN relations :
                          ReturnedRelationObject(graph, relations[r]) = k
                   THEN relations[CHOOSE r \in DOMAIN relations :
                            ReturnedRelationObject(graph, relations[r]) = k] @@ @[k]
                   ELSE @[k]]]

\* three similar observations of one entity and category
FrameItems ==
    { Item("e1", Obs(cMemory,   Now,     5, "goal", FALSE)),
      Item("e1", Obs(cMemoryUp, Now - 2, 4, "goal", FALSE)),
      Item("e1", Obs(cStorage,  Now - 1, 5, "goal", FALSE)) }

FrameLists == UNION {[1..n -> FrameItems] : n \in 0..MaxPending}

\* a graph whose two entities are the ends of a relation
FrameGraphs ==
    {[entities |-> es, relations |-> <<rKnows, rWorksOn>>, fail |-> NoFailure] :
        es \in {l \in EntityLists : Len(l) = MaxGraphEntities}}

FrameCompressObservations ==
    /\ Idle
    /\ engine.constructed
    /\ \E pendingObservations \in FrameLists :
          /\ args' = [pendingObservations |-> pendingObservations]
          /\ \E r \in compressObservations(engine, pendingObservations) :
                result' = [returned |-> r,
                           left |-> LeftOfList(pendingObservations, r)]
    /\ op' = "compressObservations"
    /\ outcome' = "returned"
    /\ UNCHANGED <<handlers, layer, calls, history, engine, service, manager>>

FrameTemporalCompression ==
    /\ Idle
    /\ engine.constructed
    /\ \E observations \in FrameLists, timeWindowDays \in TimeWindows :
          /\ args' = [pendingObservations |-> observations,
                      timeWindowDays |-> timeWindowDays]
          /\ \E r \in temporalCompression(engine, observations, timeWindowDays) :
                result' = [returned |-> r,
                           left |-> LeftOfList(observations, r)]
    /\ op' = "temporalCompression"
    /\ outcome' = "returned"
    /\ UNCHANGED <<handlers, layer, calls, history, engine, service, manager>>

FrameRetrieveRelevantMemories ==
    /\ Idle
    /\ service.constructed
    /\ \E knowledgeGraph \in FrameGraphs, context \in Contexts,
          targetEntities \in TargetLists :
          /\ args' = [knowledgeGraph |-> knowledgeGraph, context |-> context,
                      targetEntities |-> targetEntities, options |-> <<>>]
          /\ \E r \in retrieveRelevantMemories(service, knowledgeGraph,
                                               context, targetEntities, <<>>) :
                /\ outcome' = r.outcome
                /\ result' = [returned |-> r.result,
                              left |-> LeftOfGraph(knowledgeGraph, r.result)]
    /\ op' = "retrieveRelevantMemories"
    /\ UNCHANGED <<handlers, layer, calls, history, engine, service, manager>>

FrameRetrieveByCategory ==
    /\ Idle
    /\ service.constructed
    /\ \E knowledgeGraph \in FrameGraphs, category \in Categories,
          entityNames \in TargetLists :
          /\ args' = [knowledgeGraph |-> knowledgeGraph, category |-> category,
                      entityNames |-> entityNames, options |-> <<>>]
          /\ \E r \in retrieveByCategory(service, knowledgeGraph, category,
                                         entityNames, <<>>) :
                /\ outcome' = r.outcome
                /\ result' = [returned |-> r.result,
                              left |-> LeftOfGraph(knowledgeGraph, r.result)]
    /\ op' = "retrieveByCategory"
    /\ UNCHANGED <<handlers, layer, calls, history, engine, service, manager>>

FrameRetrieveCriticalMemories ==
    /\ Idle
    /\ service.constructed
    /\ \E knowledgeGraph \in FrameGraphs, entityNames \in TargetLists :
          /\ args' = [knowledgeGraph |-> knowledgeGraph,
                      entityNames |-> entityNames]
          /\ \E r \in retrieveCriticalMemories(knowledgeGraph, entityNames) :
                /\ outcome' = r.outcome
                /\ result' = [returned |-> r.result,
                              left |-> LeftOfGraph(knowledgeGraph, r.result)]
    /\ op' = "retrieveCriticalMemories"
    /\ UNCHANGED <<handlers, layer, calls, history, engine, service, manager>>

FrameRetrieveByTimeRange ==
    /\ Idle
    /\ service.constructed
    /\ \E knowledgeGraph \in FrameGraphs, timeRange \in TimeRanges,
          entityNames \in TargetLists :
          /\ args' = [knowledgeGraph |-> knowledgeGraph,
                      timeRange |-> timeRange, entityNames |-> entityNames]
          /\ \E r \in retrieveByTimeRange(knowledgeGraph, timeRange,
                                          entityNames) :
                /\ outcome' = r.outcome
                /\ result' = [returned |-> r.result,
                              left |-> LeftOfGraph(knowledgeGraph, r.result)]
    /\ op' = "retrieveByTimeRange"
    /\ UNCHANGED <<handlers, layer, calls, history, engine, service, manager>>

FrameNext ==
    \/ ConstructEngine
    \/ ConstructService
    \/ FrameCompressObservations
    \/ FrameTemporalCompression
    \/ FrameRetrieveRelevantMemories
    \/ FrameRetrieveByCategory
    \/ FrameRetrieveCriticalMemories
    \/ FrameRetrieveByTimeRange
    \/ Return

FrameSpec == Init /\ [][FrameNext]_vars

(* C38 *)

-----------------------------------------------------------------------------
(* Sessions side by side: each MemoryManager.initialize() constructs its own
   KnowledgeGraphHandler; all handlers talk to one server-memory process *)

\* sessions that run side by side
MaxSessions == 2

HandlerEntities ==
    { [name |-> "e1", entityType |-> "person", observations |-> <<>>],
      [name |-> "e2", entityType |-> "person", observations |-> <<>>] }

\* how a call of a server function ends: it answers, it calls back with an
\* error (the wrapper rejects), or the function is not available (the
\* wrapper then simulates: a write "succeeds" without any effect, a read
\* finds nothing)
ServerModes == {"answers", "rejects", "absent"}

\* a wrong constructor, in which all handlers share one Map, that C31 must
\* tell from EntityCacheOf
SharedEntityCache(h) == 1

\* this.entityCache = new Map() in the constructor: handler h reads and
\* writes the Map created at its own construction
EntityCacheOf(h) == h

\* the handler h as its methods see it in a call: its cache and what the
\* server functions answer
HandlerView(h, mode) ==
    [store |-> IF mode = "absent" THEN <<>> ELSE handlers.server,
     entityCache |-> handlers.caches[EntityCacheOf(h)]]

\* the names a call has put into the cache
NamesSet(before, after) ==
    {after[k].name : k \in {j \in DOMAIN after :
                               \A i \in DOMAIN before : before[i] # after[j]}}

\* the handlers after a call of handler h that left the view `after`
AfterCall(h, mode, after) ==
    [server |-> IF mode = "absent" THEN handlers.server ELSE after.store,
     caches |-> [handlers.caches EXCEPT ![EntityCacheOf(h)] = after.entityCache],
     cachedBy |-> [handlers.cachedBy EXCEPT
                      ![h] = @ \cup NamesSet(HandlerView(h, mode).entityCache,
                                             after.entityCache)]]

\* KnowledgeGraphHandler.getEntity: the cache first, then open_nodes, whose
\* hit is cached; a rejected call gives null (<<>>)
KnowledgeGraphHandler_getEntity(m, entityName, mcpOk) ==
    IF HasEntity(m.entityCache, entityName)
    THEN [manager |-> m,
          entity |-> SelectSeq(m.entityCache,
                               LAMBDA e : e.name = entityName)]
    ELSE IF ~mcpOk
    THEN [manager |-> m, entity |-> <<>>]
    ELSE LET hits == SelectSeq(m.store, LAMBDA e : e.name = entityName)
         IN  [manager |->
                [m EXCEPT !.entityCache =
                    IF hits = <<>> THEN @ ELSE SetEntity(@, hits[1])],
              entity |-> IF hits = <<>> THEN <<>> ELSE <<hits[1]>>]

\* MemoryManager.initialize() of one more session
InitializeSession ==
    /\ Idle
    /\ Len(handlers.caches) < MaxSessions
    /\ handlers' = [handlers EXCEPT !.caches = Append(@, <<>>),
                                    !.cachedBy = Append(@, {})]
    /\ UNCHANGED <<engine, service, manager, layer, calls, history,
                   op, args, outcome, result>>

HandlerCreateEntity ==
    /\ Idle
    /\ \E h \in DOMAIN handlers.caches, entity \in HandlerEntities,
          mode \in ServerModes :
          LET r == createEntity(HandlerView(h, mode), entity,
                                mode # "rejects")
          IN  /\ handlers' = AfterCall(h, mode, r.manager)
              /\ args' = [handler |-> h, entityName |-> entity.name,
                          mode |-> mode]
              /\ result' = [found |-> r.success]
    /\ op' = "createEntity"
    /\ outcome' = "returned"
    /\ UNCHANGED <<engine, service, manager, layer, calls, history>>

HandlerEntityExists ==
    /\ Idle
    /\ \E h \in DOMAIN handlers.caches, entity \in HandlerEntities,
          mode \in ServerModes :
          LET r == entityExists(HandlerView(h, mode), entity.name,
                                mode # "rejects")
          IN  /\ handlers' = AfterCall(h, mode, r.manager)
              /\ args' = [handler |-> h, entityName |-> entity.name,
                          mode |-> mode]
              /\ result' = [found |-> r.exists]
    /\ op' = "entityExists"
    /\ outcome' = "returned"
    /\ UNCHANGED <<engine, service, manager, layer, calls, history>>

HandlerGetEntity ==
    /\ Idle
    /\ \E h \in DOMAIN handlers.caches, entity \in HandlerEntities,
          mode \in ServerModes :
          LET r == KnowledgeGraphHandler_getEntity(HandlerView(h, mode),
                                                   entity.name,
                                                   mode # "rejects")
          IN  /\ handlers' = AfterCall(h, mode, r.manager)
              /\ args' = [handler |-> h, entityName |-> entity.name,
                          mode |-> mode]
              /\ result' = [found |-> r.entity # <<>>]
    /\ op' = "getEntity"
    /\ outcome' = "returned"
    /\ UNCHANGED <<engine, service, manager, layer, calls, history>>

HandlerNext ==
    \/ InitializeSession
    \/ HandlerCreateEntity
    \/ HandlerEntityExists
    \/ HandlerGetEntity
    \/ Return

HandlerSpec == Init /\ [][HandlerNext]_vars

(* C31 *)

\* C31: getEntity and entityExists of a handler find an entity only when a
\* call of that same handler has put it into the cache (at the latest the
\* call itself, from the server's answer): what another session's handler
\* cached is never seen
C31_CachesNotShared ==
    (op \in {"getEntity", "entityExists"} /\ result.found) =>
        args.entityName \in handlers.cachedBy[args.handler]

\* C31 witness: a handler looks for an entity that only the other session's
\* handler has in its cache, and does not find it
C31_Witness ==
    /\ op \in {"getEntity", "entityExists"}
    /\ ~result.found
    /\ ~HasEntity(handlers.server, args.entityName)
    /\ \E h \in DOMAIN handlers.caches :
          /\ h # args.handler
          /\ HasEntity(handlers.caches[EntityCacheOf(h)], args.entityName)

====
